---- MODULE Spec2Model ----
(***************************************************************************)
(* A model of the pku_cv pipeline (src/src/pku_cv): discovery (phase 1),   *)
(* enrichment (phase 2), normalization (phase 3) and export, each a        *)
(* resumable run over JSONL stores.                                        *)
(*                                                                         *)
(* A store is the list of rows of its file, in file order.  Text fields    *)
(* are strings; a field whose characters the code inspects (the join year, *)
(* institution names, page tokens) is a sequence of one-character strings. *)
(* The capture date (today_str) is left out of the rows of the phases: no  *)
(* decision of a phase reads it.  The export reads it, and the records it  *)
(* is run on carry it or not.                                              *)
(***************************************************************************)
EXTENDS Integers, Sequences, FiniteSets, TLC

VARIABLES
    cmd,              \* cli.py: the sub-command exercised (args.command); "crawl"
                      \* stands for one call of a crawl function on its own
    apiKey,           \* DeepSeekClient.enabled: a credential is configured
    playwright,       \* PLAYWRIGHT_AVAILABLE
    seedCsv,          \* SCHOOLS_SEED_CSV: the seed rows
    headers,          \* read_csv_header(PROFESSORS_TEMPLATE_CSV): the fields of
                      \* the export schema
    web,              \* the pages the listing sites can serve
    \* ---- the stores (files under data/)
    seedIssues,       \* SEED_ISSUES_JSONL
    pagesDir,         \* PAGES_DIR: html_path -> html
    listingStore,     \* LISTING_PAGES_JSONL
    candidateStore,   \* NAME_CANDIDATES_JSONL
    namesStore,       \* PROFESSOR_NAMES_JSONL
    enrichedStore,    \* ENRICHED_JSONL
    normalizedStore,  \* NORMALIZED_JSONL
    reviewStore,      \* NORMALIZATION_REVIEW_JSONL
    exportStore,      \* FINAL_OUTPUT_CSV
    \* ---- phase1_discovery.run: the locals of the run in progress
    d_pc,             \* "off" | "idle" | "seeds" | "persisted" | "aborted" | "killed"
    d_resume,         \* run(resume=)
    d_require,        \* run(require_deepseek=)
    d_seed_start,     \* run(seed_start=)
    d_max_pages,      \* run(max_pages_per_seed=)
    d_valid,          \* valid_rows, after the start/limit window
    d_existing,       \* existing_listing_rows
    d_local,          \* seeds of valid_rows the loop has passed
    d_new,            \* listing_rows_new
    \* ---- _discover_with_playwright / _discover_with_requests: the call in progress
    c_pc,             \* "off" | "open" | "pw" | "rq" | "returned" | "raised"
    c_strategy,       \* "pw" | "rq"
    c_seed,           \* the call's arguments
    c_rows,           \* rows
    c_page_index,     \* page_index
    c_html,           \* playwright: what the browser's page shows
    c_last_signature, \* playwright: last_signature
    c_repeat_count,   \* playwright: repeat_count
    c_current_url,    \* requests: current_url
    c_visited,        \* requests: visited
    \* ---- phase 1 history (not program state)
    d_fetched,        \* seed_row_index of the seeds this run fetched a page of
    d_written,        \* the stores this run has written
    d_runs,           \* runs started
    d_kinds,          \* per candidate group of the run's classification: how the
                      \* capability answered its batches
    d_dropped,        \* seed_row_index of the seeds whose browser crawl raised
                      \* after it had recorded a page (history)
    \* ---- phase2_enrich.run: the locals of the run in progress
    e_pc,             \* "off" | "idle" | "run" | "aborted" | "killed"
    e_resume,         \* run(resume=)
    e_workers,        \* run(workers=), after max(1, workers)
    e_fallback,       \* run(enable_web_search_fallback=)
    e_existing,       \* existing_rows
    e_pending,        \* pending
    e_new,            \* new_rows
    e_queue,          \* pool: index in pending of the next task a worker takes
    e_running,        \* pool: indices in pending of the tasks being executed
    \* ---- phase 2 history (not program state)
    e_src,            \* per new row: the pending row it came from, calls made, raised
    e_done,           \* keys of the names rows whose result a finished run persisted
    e_runs,           \* runs started
    \* ---- phase3_normalize.run: the locals of the run in progress
    n_pc,             \* "off" | "idle" | "run" | "aborted" | "killed"
    n_resume,         \* run(resume=)
    n_existing,       \* existing_normalized_rows
    n_existing_review,\* existing_review_rows
    n_pending,        \* pending_rows
    n_new,            \* normalized_rows_new
    n_review,         \* review_rows
    n_row_key,        \* what the local name row_key is bound to: "function" | "string"
    \* ---- phase 3 and export history (not program state)
    n_calls,          \* per new row: the capability calls made for it
    n_answers,        \* per new row and institution field: what the capability
                      \* answered when it was asked about the field
    n_runs,           \* normalization and export runs started
    lastMerge,        \* the store whose last write merged a new record into an
                      \* existing key, "none" if the last write merged none
    \* ---- DeepSeekClient.chat_json: the call in progress
    j_pc,             \* "off" | "idle" | "post" | "sleep" | "returned" | "raised"
    j_max_retries,    \* self.max_retries
    j_attempt,        \* attempt
    j_last_error,     \* last_error: "none" for None
    j_wait,           \* the argument of the time.sleep in progress, in tenths of a second
    \* ---- chat_json history (not program state)
    j_posts,          \* session.post calls the call in progress has made
    j_outcome,        \* how the last session.post of the call ended
    j_calls,          \* calls of chat_json started
    \* ---- the classification of one group's candidates taken alone
    f_pc,             \* "off" | "call" | "returned"
    f_candidates,     \* candidates
    f_enabled,        \* client.enabled
    f_answer,         \* how the capability answered, "nocall" if it was not asked
    f_names,          \* filtered_names: what _filter_names_with_deepseek returned
    f_rows,           \* the name rows built of filtered_names
    \* ---- a JSON parser of utils.py applied to one text of the capability
    p_pc,             \* "off" | "ready" | "returned"
    p_text,           \* text: the capability's answer, a sequence of tokens
    p_fn,             \* the parser applied: "none" | "obj" | "list"
    p_out,            \* what the parser returned
    c_prev            \* the last returned call of a crawl function taken alone:
                      \* its strategy, page budget, rows, repeat counter and the
                      \* pages the site served to it (history, not program state)

\* what no step of a phase changes: the command, the configuration, the site and
\* the record of the previous crawl call
inputVars == <<cmd, apiKey, playwright, seedCsv, web, headers, c_prev>>

crawlLocals == <<c_pc, c_strategy, c_seed, c_rows, c_page_index, c_html,
                 c_last_signature, c_repeat_count, c_current_url, c_visited>>

discoverLocals == <<d_pc, d_resume, d_require, d_seed_start, d_max_pages, d_valid,
                    d_existing, d_local, d_new, d_fetched, d_written, d_runs, d_kinds, d_dropped>>

discoverStores == <<seedIssues, pagesDir, listingStore, candidateStore>>

enrichLocals == <<e_pc, e_resume, e_workers, e_fallback, e_existing, e_pending, e_new,
                  e_queue, e_running, e_src, e_done, e_runs>>

normStores == <<normalizedStore, reviewStore, exportStore>>

normLocals == <<n_pc, n_resume, n_existing, n_existing_review, n_pending, n_new, n_review,
                n_row_key, n_calls, n_answers, n_runs>>

chatLocals == <<j_pc, j_max_retries, j_attempt, j_last_error, j_wait, j_posts, j_outcome,
                j_calls>>

filterLocals == <<f_pc, f_candidates, f_enabled, f_answer, f_names, f_rows>>

parseLocals == <<p_pc, p_text, p_fn, p_out>>

vars == <<inputVars, discoverStores, namesStore, enrichedStore, normStores, discoverLocals,
          crawlLocals, enrichLocals, normLocals, lastMerge, chatLocals, filterLocals, parseLocals>>

crawlLocalsRest == <<c_strategy, c_seed, c_rows, c_page_index, c_html, c_last_signature,
                     c_repeat_count, c_current_url, c_visited>>

\* what a phase 2 step leaves alone besides its own locals and store
notEnrich == <<playwright, seedCsv, web, headers, c_prev, discoverStores, discoverLocals, crawlLocals,
               normStores, normLocals, chatLocals, filterLocals, parseLocals>>

\* what a phase 1 step leaves alone besides its own locals and stores
notDiscover == <<enrichedStore, enrichLocals, normStores, normLocals, chatLocals, filterLocals, parseLocals>>

\* ------------------------------------------------------------------ bounds

MaxNames == 2       \* rows in the professor-name store
MaxRuns == 2        \* runs of a phase in one behaviour
MaxWorkers == 2     \* largest worker count tried
MaxLimit == 1       \* largest --limit / --seed-limit / --seed-start tried (0 stands for None)
MaxSeeds == 2       \* rows in the seed file
MaxRunPages == 2    \* page budget per seed of a discovery run
MaxPages == 4       \* largest page budget of a crawl taken alone
MaxRetries == 4     \* largest max_retries tried (4 is the default)
MaxCandidates == 2  \* candidates handed to the classification taken alone
MaxCalls == 2       \* calls of a function taken alone in one behaviour

\* ------------------------------------------------------- generic helpers

Range(s) == {s[i] : i \in 1..Len(s)}

Min(S) == CHOOSE x \in S : \A y \in S : x <= y

Max(S) == CHOOSE x \in S : \A y \in S : y <= x

\* the sequences over S of length at most n with no element twice
RECURSIVE DistinctSeqs(_, _)
DistinctSeqs(S, n) ==
    IF n = 0 THEN {<<>>}
    ELSE LET shorter == DistinctSeqs(S, n - 1)
         IN shorter \cup {Append(p[1], p[2]) :
                             p \in {q \in shorter \X S : q[2] \notin Range(q[1])}}

\* the keys of rows, in order
KeysOf(rows, K(_)) == [i \in 1..Len(rows) |-> K(rows[i])]

\* the positions at which a key is inserted for the first time
FirstInsertions(keys) ==
    SelectSeq([i \in 1..Len(keys) |-> i], LAMBDA i : \A j \in 1..(i - 1) : keys[j] # keys[i])

\* the row first assigned to the key: a dict that keeps the old value
FirstValueAt(rows, keys, first) == rows[first]

\* the row last assigned to the key first inserted at position first
LastValueAt(rows, keys, first) ==
    rows[CHOOSE j \in first..Len(rows) :
             /\ keys[j] = keys[first]
             /\ \A k \in (j + 1)..Len(rows) : keys[k] # keys[first]]

\* list(d.values()) of the dict built by d[key] = row over rows in order: a key
\* keeps the position of its first insertion and the value of its last
DictLast(rows, keys, firsts) ==
    [m \in 1..Len(firsts) |-> LastValueAt(rows, keys, firsts[m])]

DictValues(rows, K(_)) == DictLast(rows, KeysOf(rows, K), FirstInsertions(KeysOf(rows, K)))

\* some row of new_rows has the key of a row of existing_rows
Clash(existing_rows, new_rows, K(_)) ==
    \E i \in 1..Len(new_rows), j \in 1..Len(existing_rows) :
        K(new_rows[i]) = K(existing_rows[j])

\* pending[:limit] under "if limit is not None and limit > 0"
Truncate(rows, limit) ==
    IF limit > 0 /\ Len(rows) > limit THEN SubSeq(rows, 1, limit) ELSE rows

\* ------------------------------------------------------ character texts
\* A text whose characters the code inspects is the sequence of its Unicode code
\* points: <<24352, 19977>> is the two ideographs of "Zhang San" in Chinese script,
\* <<76, 105, 32, 77, 105, 110, 103>> is "Li Ming".

IsDigit(c) == c \in 48..57
IsUpper(c) == c \in 65..90
IsLower(c) == c \in 97..122
IsIdeograph(c) == c \in 19968..40959          \* [\u4e00-\u9fff]
IsSpace(c) == c \in {9, 10, 13, 32, 12288}
IsWordChar(c) == IsDigit(c) \/ IsUpper(c) \/ IsLower(c) \/ IsIdeograph(c) \/ c = 95   \* \w

\* str.strip()
RECURSIVE Strip(_)
Strip(s) ==
    IF s = <<>> THEN s
    ELSE IF IsSpace(Head(s)) THEN Strip(Tail(s))
    ELSE IF IsSpace(s[Len(s)]) THEN Strip(SubSeq(s, 1, Len(s) - 1))
    ELSE s

\* needle in text (Python's substring test)
Contains(text, needle) ==
    \E i \in 1..(Len(text) - Len(needle) + 1) :
        SubSeq(text, i, i + Len(needle) - 1) = needle

\* text < other in Python's string order (by code point, a prefix first)
TextLess(text, other) ==
    \E i \in 1..(Len(other)) :
        /\ i <= Len(text) + 1
        /\ SubSeq(text, 1, i - 1) = SubSeq(other, 1, i - 1)
        /\ (i = Len(text) + 1 \/ text[i] < other[i])

\* str.lower()
Lower(text) == [i \in 1..Len(text) |-> IF IsUpper(text[i]) THEN text[i] + 32 ELSE text[i]]

\* str.split(sep)
RECURSIVE Split(_, _)
SplitAt(text, sep, k) ==
    <<SubSeq(text, 1, k - 1)>> \o Split(SubSeq(text, k + 1, Len(text)), sep)

Split(text, sep) ==
    IF \A i \in 1..Len(text) : text[i] # sep THEN <<text>>
    ELSE SplitAt(text, sep, Min({i \in 1..Len(text) : text[i] = sep}))

\* sorted(S) for a set of texts
RECURSIVE SortTexts(_)
LeastFirst(S, least) == <<least>> \o SortTexts(S \ {least})

SortTexts(S) ==
    IF S = {} THEN <<>>
    ELSE LeastFirst(S, CHOOSE t \in S : \A u \in S \ {t} : TextLess(t, u))

\* rows[:n]
Take(rows, n) == IF Len(rows) > n THEN SubSeq(rows, 1, n) ELSE rows

\* A URL is the sequence of its parts, <<scheme, host, path segment, ...>>; a
\* relative href is <<path segment>>; <<>> is the empty string.
IsAbsolute(url) == url # <<>> /\ url[1] \in {"http", "https", "ftp"}

\* urljoin(base, href): an absolute href stands alone, a relative one replaces the
\* last path segment of base
Urljoin(base, href) ==
    IF IsAbsolute(href) \/ base = <<>> THEN href
    ELSE IF Len(base) > 2 THEN SubSeq(base, 1, Len(base) - 1) \o href
    ELSE base \o href

\* names of the department and of the institution of most rows
Dept == "dept_physics"
School == "school_physics"

\* ---------------------------------------- phase 1: the name heuristic

STOPWORDS ==
    { <<23548, 33322>>, <<38376, 25143>>, <<27010, 20917>>, <<31616, 20171>>,
      <<21382, 21490>>, <<23398, 38498>>, <<26032, 38395>>, <<20844, 21578>>,
      <<25307, 29983>>, <<26657, 21451>>, <<32852, 31995>>, <<39318, 39029>>,
      <<25945, 30740, 20154, 21592>>, <<25945, 24072, 38431, 20237>>,
      <<24555, 36895>>, <<20027, 39029>>, <<21271, 22823>>, <<32593, 32476>>,
      <<35838, 39064, 32452>>, <<32452, 38271>>, <<22312, 32844>>, <<25945, 24072>> }

EN_STOPWORDS ==
    { <<104, 111, 109, 101>>, <<112, 111, 114, 116, 97, 108>>, <<97, 98, 111, 117, 116>>,
      <<111, 118, 101, 114, 118, 105, 101, 119>>, <<110, 101, 119, 115>>,
      <<110, 111, 116, 105, 99, 101>>, <<97, 100, 109, 105, 115, 115, 105, 111, 110>>,
      <<97, 108, 117, 109, 110, 105>>, <<99, 111, 110, 116, 97, 99, 116>>,
      <<102, 97, 99, 117, 108, 116, 121>>, <<116, 101, 97, 99, 104, 101, 114>>,
      <<115, 116, 97, 102, 102>>, <<114, 101, 115, 101, 97, 114, 99, 104>>,
      <<103, 114, 111, 117, 112>>, <<110, 97, 118, 105, 103, 97, 116, 105, 111, 110>> }

\* re.sub(r"\s+", " ", token.strip())
RECURSIVE CollapseSpaces(_)
CollapseSpaces(t) ==
    IF Len(t) < 2 THEN [i \in 1..Len(t) |-> IF IsSpace(t[i]) THEN 32 ELSE t[i]]
    ELSE IF IsSpace(t[1]) /\ IsSpace(t[2]) THEN CollapseSpaces(Tail(t))
    ELSE <<IF IsSpace(t[1]) THEN 32 ELSE t[1]>> \o CollapseSpaces(Tail(t))

_normalize_token(token) == CollapseSpaces(Strip(token))

\* ZH_NAME_RE = ^[\u4e00-\u9fff]{2,4}$
ZhNameRule(t) ==
    /\ Len(t) \in 2..4
    /\ \A i \in 1..Len(t) : IsIdeograph(t[i])
    /\ t \notin STOPWORDS
    /\ \A word \in STOPWORDS : ~Contains(t, word)

_is_zh_name(token) == ZhNameRule(Strip(token))

\* a word pattern of letters alone
MatchesLettersOnly(word) ==
    /\ word # <<>>
    /\ \A i \in 1..Len(word) : IsUpper(word[i]) \/ IsLower(word[i])

\* EN_WORD_RE = ^[A-Za-z][A-Za-z\-'.]*$
MatchesEnWord(word) ==
    /\ word # <<>>
    /\ IsUpper(word[1]) \/ IsLower(word[1])
    /\ \A i \in 2..Len(word) : IsUpper(word[i]) \/ IsLower(word[i]) \/ word[i] \in {45, 39, 46}

\* str.isupper() / str.islower(): a cased character, and none of the other case
StrIsUpper(word) == (\E i \in 1..Len(word) : IsUpper(word[i])) /\ \A i \in 1..Len(word) : ~IsLower(word[i])
StrIsLower(word) == (\E i \in 1..Len(word) : IsLower(word[i])) /\ \A i \in 1..Len(word) : ~IsUpper(word[i])

_is_word_valid(word) ==
    StrIsUpper(word) \/ (IsUpper(word[1]) /\ StrIsLower(Tail(word)))

\* the rules on the words of the token
EnWordsRule(words) ==
    /\ Len(words) \in 2..3
    /\ \A i \in 1..Len(words) : MatchesEnWord(words[i])
    /\ \E i \in 1..Len(words) : Len(words[i]) # 1
    /\ \A i \in 1..Len(words) : _is_word_valid(words[i])

\* the rules on the lower-cased token
EnStopRule(lower) ==
    /\ lower \notin EN_STOPWORDS
    /\ EN_STOPWORDS \cap Range(Split(lower, 32)) = {}

EnNameRule(t) ==
    /\ t # <<>>
    /\ \A i \in 1..Len(t) : ~IsDigit(t[i])
    /\ EnWordsRule(Split(t, 32))
    /\ EnStopRule(Lower(t))

_is_en_name(token) == EnNameRule(_normalize_token(token))

NameRule(t) == _is_zh_name(t) \/ _is_en_name(t)

_looks_like_name(token) == NameRule(_normalize_token(token))

NameTypeRule(t) == IF _is_zh_name(t) THEN "zh" ELSE IF _is_en_name(t) THEN "en" ELSE ""

\* a _name_type that knows the ideograph rule only
NameTypeZhOnly(token) == IF _is_zh_name(Strip(token)) THEN "zh" ELSE ""

_name_type(token) == NameTypeRule(Strip(token))

\* ------------------------------------- phase 1: pages and the crawl's functions
\* A page's html is the sequence of its text elements in document order, each
\* [text, href]: an anchor with its link, or plain text (href <<>>).  An element's
\* text is one token of the page's visible text.

\* scan 1 (anchors) then scans 2 and 3 (tokens of the visible text), deduplicated
\* on the text, a non-empty link winning over an empty one, sorted on the text
AnchorPairs(anchors, page_url) ==
    [i \in 1..Len(anchors) |->
        [name |-> _normalize_token(anchors[i].text),
         profile_url |-> Urljoin(page_url, anchors[i].href)]]

TextPairs(html) ==
    [i \in 1..Len(html) |-> [name |-> _normalize_token(html[i].text), profile_url |-> <<>>]]

\* the link of the last of the pairs, among those with a link, that has the name
LastLinkAt(kept, linked) == IF linked = {} THEN <<>> ELSE kept[Max(linked)].profile_url

\* the link of the first of the pairs, among those with a link, that has the name
FirstLinkAt(kept, linked) == IF linked = {} THEN <<>> ELSE kept[Min(linked)].profile_url

FirstLink(kept, name) ==
    FirstLinkAt(kept, {i \in 1..Len(kept) : kept[i].name = name /\ kept[i].profile_url # <<>>})

DedupPairs(kept, names) ==
    [i \in 1..Len(names) |-> [name |-> names[i], profile_url |-> FirstLink(kept, names[i])]]

SortedPairs(kept) == DedupPairs(kept, SortTexts({kept[i].name : i \in 1..Len(kept)}))

_collect_candidate_pairs(html, page_url) ==
    SortedPairs(SelectSeq(AnchorPairs(SelectSeq(html, LAMBDA el : el.href # <<>>), page_url)
                              \o TextPairs(html),
                          LAMBDA pair : _looks_like_name(pair.name)))

\* "|".join(names[:20]): the list of the first 20 names (no name holds a "|")
PairNames(pairs) == [i \in 1..Len(pairs) |-> pairs[i].name]

_extract_signature(html) == Take(PairNames(_collect_candidate_pairs(html, <<>>)), 20)

\* _find_next_url: the first anchor with a link whose text holds the "next page"
\* words (19979 19968 39029 or 19979 39029) or is "next"; <<>> stands for None
IsNextText(text) ==
    \/ Contains(text, <<19979, 19968, 39029>>)
    \/ Contains(text, <<19979, 39029>>)
    \/ text = <<110, 101, 120, 116>>

JoinFirst(current_url, html, hits) ==
    IF hits = {} THEN <<>> ELSE Urljoin(current_url, html[Min(hits)].href)

_find_next_url(current_url, html) ==
    JoinFirst(current_url, html,
              {i \in 1..Len(html) :
                   html[i].href # <<>> /\ IsNextText(Lower(Strip(html[i].text)))})

\* a page range that holds one page more than the budget
InRangeOneMore(page_index, max_pages_per_seed) == page_index <= max_pages_per_seed + 1

\* page_index in range(1, max_pages_per_seed + 1): the loops' page budget
InRange(page_index, max_pages_per_seed) == page_index <= max_pages_per_seed

\* a repeat counter that never passes 1
RepeatCountStuck(signature, last_signature, repeat_count) ==
    IF signature # <<>> /\ signature = last_signature THEN 1 ELSE 0

\* the playwright loop's repeat counter after it has seen a page's signature
RepeatCount(signature, last_signature, repeat_count) ==
    IF signature # <<>> /\ signature = last_signature THEN repeat_count + 1 ELSE 0

\* PAGES_DIR / safe_slug(f"{school_name_zh}-{seed_row_index}-{page_index}").html
HtmlPath(school_name_zh, seed_row_index, page_index) ==
    <<school_name_zh, seed_row_index, page_index>>

\* the row a crawl appends for a captured page (crawl_date left out: one day)
ListingRow(seed, listing_page_url, page_index) ==
    [department_name_zh |-> seed.department_name_zh,
     school_name_zh |-> seed.school_name_zh,
     seed_faculty_list_url |-> seed.start_url,
     listing_page_url |-> listing_page_url,
     page_index |-> page_index,
     seed_row_index |-> seed.seed_row_index,
     html_path |-> HtmlPath(seed.school_name_zh, seed.seed_row_index, page_index)]

\* ----------------------------------------------- phase 1: seeds and pages

\* elements of listing pages: a name with a relative profile link, a name in
\* plain text, a navigation word (a stop word) with a link, a "next page" link in
\* Chinese (three ideographs: the heuristic takes it for a name) and in English
ElZhang == [text |-> <<24352, 19977>>, href |-> <<"zhang">>]
ElZhangAgain == [text |-> <<24352, 19977>>, href |-> <<"zhang2">>]
ElLiMing == [text |-> <<76, 105, 32, 77, 105, 110, 103>>, href |-> <<>>]
ElLiSi == [text |-> <<26446, 22235>>, href |-> <<>>]
ElNav == [text |-> <<25945, 24072>>, href |-> <<"https", "a.edu", "index">>]
ElNextZh == [text |-> <<19979, 19968, 39029>>, href |-> <<"p2">>]
ElNextEn == [text |-> <<78, 101, 120, 116>>, href |-> <<"p2">>]

PageNames == <<ElZhang, ElLiMing, ElNav>>
PageNamesNext == <<ElZhang, ElZhangAgain, ElNextEn>>
PageOther == <<ElLiSi, ElNextZh>>
PageNone == <<ElNav>>
PageNoneNext == <<ElNav, ElNextEn>>

\* what the sites serve: during a discovery run one of RunPages at every link,
\* during a crawl taken alone any of CrawlPages at any time
RunPages == {PageNames, PageNamesNext}
CrawlPages == {PageNames, PageOther, PageNone, PageNoneNext}

\* rows of the seed file: two well-formed, one with a non-http link, one with a
\* blank institution
SeedA == [department_name_zh |-> Dept, school_name_zh |-> School,
          faculty_list_url |-> <<"https", "a.edu", "list">>]
SeedB == [department_name_zh |-> Dept, school_name_zh |-> "school_math",
          faculty_list_url |-> <<"http", "b.edu", "list">>]
SeedFtp == [department_name_zh |-> Dept, school_name_zh |-> "school_chem",
            faculty_list_url |-> <<"ftp", "c.edu", "list">>]
SeedBlank == [department_name_zh |-> Dept, school_name_zh |-> "",
              faculty_list_url |-> <<"https", "d.edu", "list">>]

\* the seed files tried, cut to MaxSeeds rows
SeedFiles ==
    {Take(file, MaxSeeds) : file \in {<<SeedA, SeedB, SeedFtp>>, <<SeedFtp, SeedA, SeedBlank>>,
                                      <<SeedBlank, SeedB, SeedA>>}}

\* validate_seed_rows without the test of the link's scheme
SeedIssueLax(row) ==
    IF row.department_name_zh = "" \/ row.school_name_zh = "" \/ row.faculty_list_url = <<>>
    THEN "missing_required_fields"
    ELSE ""

\* utils.validate_seed_rows: the rows kept and the issues recorded (0-based index)
SeedIssue(row) ==
    IF row.department_name_zh = "" \/ row.school_name_zh = "" \/ row.faculty_list_url = <<>>
    THEN "missing_required_fields"
    ELSE IF row.faculty_list_url[1] \notin {"http", "https"} THEN "invalid_url"
    ELSE ""

SeedIssues(rows, bad) ==
    [k \in 1..Len(bad) |->
        [seed_row_index |-> bad[k] - 1, issue |-> SeedIssue(rows[bad[k]]),
         row |-> rows[bad[k]]]]

validate_seed_rows(rows) ==
    [valid_rows |-> SelectSeq(rows, LAMBDA row : SeedIssue(row) = ""),
     issues |-> SeedIssues(rows, SelectSeq([i \in 1..Len(rows) |-> i],
                                           LAMBDA i : SeedIssue(rows[i]) # ""))]

\* valid_rows[seed_start:] then valid_rows[:seed_limit] (0 stands for None)
SeedWindow(valid_rows, seed_start, seed_limit) ==
    Truncate(IF seed_start > 0
             THEN SubSeq(valid_rows, seed_start + 1, Len(valid_rows)) ELSE valid_rows,
             seed_limit)

\* ------------------------------------ phase 1: the stores and the classifier

\* the distinct elements of rows in the order of their first occurrence
FirstSeen(rows) == DictValues(rows, LAMBDA row : row)

\* list(d.values()) of the dict built by "if key not in d: d[key] = row": a key
\* keeps the position and the value of its first insertion
DictFirstAt(rows, firsts) == [m \in 1..Len(firsts) |-> rows[firsts[m]]]

DictFirst(rows, K(_)) == DictFirstAt(rows, FirstInsertions(KeysOf(rows, K)))

\* run(), lines 438-450: the listing rows merged on html_path (never blank here)
ListingKey(row) == row.html_path

MergeListing(existing_listing_rows, listing_rows_new) ==
    DictValues(existing_listing_rows \o listing_rows_new, ListingKey)

\* run(), lines 459-491: the candidates of the listing rows whose page was not
\* harvested before and whose file can be read
RECURSIVE CandidateRowsNew(_, _, _, _)
CandidateRowsOf(listing, pairs) ==
    [i \in 1..Len(pairs) |->
        [department_name_zh |-> listing.department_name_zh,
         school_name_zh |-> listing.school_name_zh,
         name_candidate |-> pairs[i].name,
         profile_url |-> pairs[i].profile_url,
         html_path |-> listing.html_path,
         listing_page_url |-> listing.listing_page_url,
         seed_row_index |-> listing.seed_row_index]]

CandidateRowsNew(listing_rows, existing_candidate_html_paths, resume, files) ==
    IF listing_rows = <<>> THEN <<>>
    ELSE (IF \/ resume /\ Head(listing_rows).html_path \in existing_candidate_html_paths
             \/ Head(listing_rows).html_path \notin DOMAIN files
          THEN <<>>
          ELSE CandidateRowsOf(Head(listing_rows),
                               _collect_candidate_pairs(files[Head(listing_rows).html_path],
                                                        Head(listing_rows).listing_page_url)))
         \o CandidateRowsNew(Tail(listing_rows), existing_candidate_html_paths, resume, files)

\* run(), lines 493-505
CandidateKey(row) ==
    <<row.department_name_zh, row.school_name_zh, row.name_candidate, row.profile_url,
      row.listing_page_url>>

MergeCandidates(existing_candidate_rows, candidate_rows_new) ==
    DictValues(existing_candidate_rows \o candidate_rows_new, CandidateKey)

\* run(), lines 508-518: the (department, institution) groups in dict order
GroupKey(row) == <<row.department_name_zh, row.school_name_zh>>

SchoolGroups(candidate_rows) ==
    FirstSeen([i \in 1..Len(candidate_rows) |-> GroupKey(candidate_rows[i])])

\* run(), lines 527-544: the group's candidates not yet among the persisted names
\* existing_by_school[group], the blank names left out
ExistingNames(group, existing_professor_rows) ==
    UNION {{Strip(existing_professor_rows[i].name_zh), Strip(existing_professor_rows[i].name_en)} :
               i \in {j \in 1..Len(existing_professor_rows) :
                          GroupKey(existing_professor_rows[j]) = group}} \ {<<>>}

GroupCandidates(group, candidate_rows, existing_professor_rows, resume) ==
    SortTexts({Strip(candidate_rows[i].name_candidate) :
                   i \in {j \in 1..Len(candidate_rows) : GroupKey(candidate_rows[j]) = group}}
              \ ({<<>>} \cup IF resume THEN ExistingNames(group, existing_professor_rows)
                             ELSE {}))

\* what the capability does with one batch: chat_json raises, or its text parses
\* (parse_json_list) to no name, to the first name of the batch, or to a name
\* that was not in the batch ("Wang Wu") followed by a stop word, or its text is
\* no JSON and holds no bracketed list ("garbled": parse_json_list returns [])
AnswerKinds == {"raise", "none", "first", "foreign", "garbled"}

AnswerNames(kind, batch) ==
    IF kind = "first" THEN <<batch[1]>>
    ELSE IF kind = "foreign" THEN << <<87, 97, 110, 103, 32, 87, 117>>, <<25945, 24072>> >>
    ELSE <<>>

batch_size == 60

\* _filter_names_with_deepseek, the capability answering every batch in one way
\* deterministic[start : start + batch_size]
Batch(deterministic, start) ==
    SubSeq(deterministic, start + 1,
           IF start + batch_size < Len(deterministic)
           THEN start + batch_size ELSE Len(deterministic))

\* what the loop adds to selected for one batch
BatchSelected(batch, kind) ==
    IF kind = "raise" THEN Range(batch)
    ELSE Range(SelectSeq(AnswerNames(kind, batch), _looks_like_name))

\* the loop over the batches entered whether the client is enabled or not
FilterAsIfEnabled(deterministic, enabled, kind) ==
    SortTexts(UNION {BatchSelected(Batch(deterministic, start), kind) :
                         start \in {n \in 0..(Len(deterministic) - 1) : n % batch_size = 0}})

FilterDeterministic(deterministic, enabled, kind) ==
    IF ~enabled THEN SortTexts(Range(deterministic))
    ELSE SortTexts(UNION {BatchSelected(Batch(deterministic, start), kind) :
                              start \in {n \in 0..(Len(deterministic) - 1) :
                                             n % batch_size = 0}})

_filter_names_with_deepseek(candidates, enabled, kind) ==
    IF candidates = <<>> THEN <<>>
    ELSE FilterDeterministic(SelectSeq(candidates, _looks_like_name), enabled, kind)

\* run(), lines 555-567: the name row of an accepted name
\* a name row that carries a link
ProfessorRowLinked(group, name) ==
    [department_name_zh |-> group[1], school_name_zh |-> group[2],
     name_zh |-> IF _name_type(name) = "zh" THEN name ELSE <<>>,
     name_en |-> IF _name_type(name) = "en" THEN name ELSE <<>>,
     profile_url |-> <<"http", "phy.edu", "linked">>]

ProfessorRow(group, name) ==
    [department_name_zh |-> group[1], school_name_zh |-> group[2],
     name_zh |-> IF _name_type(name) = "zh" THEN name ELSE <<>>,
     name_en |-> IF _name_type(name) = "en" THEN name ELSE <<>>,
     profile_url |-> <<>>]

\* run(), lines 540-567: the new name rows, group after group; kinds[g] is how the
\* capability answers for the g-th group
RECURSIVE ProfessorRowsNew(_, _, _, _, _, _)
ProfessorRowsOf(group, filtered_names) ==
    [i \in 1..Len(filtered_names) |-> ProfessorRow(group, filtered_names[i])]

ProfessorRowsNew(groups, candidate_rows, existing_professor_rows, resume, enabled, kinds) ==
    IF groups = <<>> THEN <<>>
    ELSE ProfessorRowsOf(Head(groups),
                         _filter_names_with_deepseek(
                             GroupCandidates(Head(groups), candidate_rows,
                                             existing_professor_rows, resume),
                             enabled, Head(kinds)))
         \o ProfessorRowsNew(Tail(groups), candidate_rows, existing_professor_rows,
                             resume, enabled, Tail(kinds))

\* run(), lines 569-582: first row wins on the natural key
NameKey(row) == <<row.department_name_zh, row.school_name_zh, row.name_zh, row.name_en>>

\* a merge that writes the new rows alone
MergeNamesNewOnly(existing_professor_rows, professor_rows_new) ==
    DictFirst(professor_rows_new, NameKey)

MergeNames(existing_professor_rows, professor_rows_new) ==
    DictFirst(existing_professor_rows \o professor_rows_new, NameKey)

\* ------------------------------------------------ phase 1: one crawl

NoSeed == [department_name_zh |-> "", school_name_zh |-> "", start_url |-> <<>>,
           seed_row_index |-> 0, max_pages_per_seed |-> 0]

\* no crawl function has returned yet
NoCall == [strategy |-> "none", max_pages_per_seed |-> 0, rows |-> <<>>,
           repeat_count |-> 0, pages |-> <<>>]

\* the pages the site can serve as page k of the listing: a page it has served to
\* the previous call is served again as it was
Served(k) == IF k <= Len(c_prev.pages) THEN {c_prev.pages[k]} ELSE web

\* no crawl call in progress
CrawlLocalsClear ==
    /\ c_strategy = "rq"
    /\ c_seed = NoSeed
    /\ c_rows = <<>>
    /\ c_page_index = 1
    /\ c_html = <<>>
    /\ c_last_signature = <<>>
    /\ c_repeat_count = 0
    /\ c_current_url = <<>>
    /\ c_visited = {}
    /\ c_prev = NoCall

ClearCrawlLocals ==
    /\ c_strategy' = "rq"
    /\ c_seed' = NoSeed
    /\ c_rows' = <<>>
    /\ c_page_index' = 1
    /\ c_html' = <<>>
    /\ c_last_signature' = <<>>
    /\ c_repeat_count' = 0
    /\ c_current_url' = <<>>
    /\ c_visited' = {}

\* a crawl function is entered with its arguments: rows = [], the counters at
\* their initial values (lines 217, 230-231 and 290-293)
\* a crawl entered with the rows of the crawl before it
EnterCrawlKeepingRows(strategy, seed) ==
    /\ c_pc' = IF strategy = "pw" THEN "open" ELSE "rq"
    /\ c_strategy' = strategy
    /\ c_seed' = seed
    /\ c_rows' = c_rows
    /\ c_page_index' = 1
    /\ c_html' = <<>>
    /\ c_last_signature' = <<>>
    /\ c_repeat_count' = 0
    /\ c_current_url' = seed.start_url
    /\ c_visited' = {}

EnterCrawl(strategy, seed) ==
    /\ c_pc' = IF strategy = "pw" THEN "open" ELSE "rq"
    /\ c_strategy' = strategy
    /\ c_seed' = seed
    /\ c_rows' = <<>>
    /\ c_page_index' = 1
    /\ c_html' = <<>>
    /\ c_last_signature' = <<>>
    /\ c_repeat_count' = 0
    /\ c_current_url' = seed.start_url
    /\ c_visited' = {}

\* _discover_with_playwright, lines 219-228: the browser opens the start link
PwGoto ==
    /\ c_pc = "open"
    /\ \E html \in Served(1) : c_html' = html
    /\ c_pc' = "pw"
    /\ d_fetched' = d_fetched \cup {c_seed.seed_row_index}
    /\ UNCHANGED <<lastMerge, inputVars, discoverStores, namesStore, notDiscover, d_pc, d_resume,
                   d_require, d_seed_start, d_max_pages, d_valid, d_existing, d_local,
                   d_new, d_written, d_runs, d_kinds, d_dropped, c_strategy, c_seed, c_rows, c_page_index,
                   c_last_signature, c_repeat_count, c_current_url, c_visited>>

\* _discover_with_playwright, lines 233-263: one pass of the loop.  The page shown
\* is saved and recorded, its signature compared with the last one; the crawl
\* returns on the second repeat in a row, when no next control can be clicked,
\* or when the page budget is used up; otherwise the click shows another page.
PwPage ==
    /\ c_pc = "pw"
    /\ LET row == ListingRow(c_seed, c_seed.start_url, c_page_index)
           signature == _extract_signature(c_html)
           repeat_count == RepeatCount(signature, c_last_signature, c_repeat_count)
       IN /\ pagesDir' = (row.html_path :> c_html) @@ pagesDir
          /\ c_rows' = Append(c_rows, row)
          /\ c_repeat_count' = repeat_count
          /\ c_last_signature' = signature
          /\ \/ /\ repeat_count >= 2
                /\ c_pc' = "returned"
                /\ UNCHANGED <<c_html, c_page_index>>
             \/ /\ repeat_count < 2
                /\ \E clicked \in BOOLEAN, html \in Served(c_page_index + 1) :
                      IF clicked /\ InRange(c_page_index + 1, c_seed.max_pages_per_seed)
                      THEN c_pc' = "pw" /\ c_html' = html /\ c_page_index' = c_page_index + 1
                      ELSE c_pc' = "returned" /\ UNCHANGED <<c_html, c_page_index>>
    /\ d_written' = d_written \cup {"pages"}
    /\ UNCHANGED <<lastMerge, inputVars, seedIssues, listingStore, candidateStore, namesStore,
                   notDiscover, d_pc, d_resume, d_require, d_seed_start, d_max_pages,
                   d_valid, d_existing, d_local, d_new, d_fetched, d_runs, d_kinds, d_dropped, c_strategy,
                   c_seed, c_current_url, c_visited>>

\* an error escapes _discover_with_playwright (launch, goto or click timing out)
PwRaises ==
    /\ c_pc \in {"open", "pw"}
    /\ c_pc' = "raised"
    /\ UNCHANGED <<lastMerge, inputVars, discoverStores, namesStore, notDiscover, discoverLocals,
                   c_strategy, c_seed, c_rows, c_page_index, c_html, c_last_signature,
                   c_repeat_count, c_current_url, c_visited>>

\* _discover_with_requests, lines 295-325: one pass of the loop that gets its page
RqPage ==
    /\ c_pc = "rq"
    /\ IF c_current_url \in c_visited
       THEN /\ c_pc' = "returned"
            /\ UNCHANGED <<pagesDir, c_rows, c_page_index, c_current_url, c_visited,
                           d_fetched, d_written>>
       ELSE \E html \in Served(c_page_index) :
               LET row == ListingRow(c_seed, c_current_url, c_page_index)
                   next_url == _find_next_url(c_current_url, html)
               IN /\ c_visited' = c_visited \cup {c_current_url}
                  /\ d_fetched' = d_fetched \cup {c_seed.seed_row_index}
                  /\ pagesDir' = (row.html_path :> html) @@ pagesDir
                  /\ d_written' = d_written \cup {"pages"}
                  /\ c_rows' = Append(c_rows, row)
                  /\ IF next_url # <<>> /\ InRange(c_page_index + 1, c_seed.max_pages_per_seed)
                     THEN /\ c_pc' = "rq"
                          /\ c_current_url' = next_url
                          /\ c_page_index' = c_page_index + 1
                     ELSE /\ c_pc' = "returned"
                          /\ UNCHANGED <<c_current_url, c_page_index>>
    /\ UNCHANGED <<lastMerge, inputVars, seedIssues, listingStore, candidateStore, namesStore,
                   notDiscover, d_pc, d_resume, d_require, d_seed_start, d_max_pages,
                   d_valid, d_existing, d_local, d_new, d_runs, d_kinds, d_dropped, c_strategy, c_seed,
                   c_html, c_last_signature, c_repeat_count>>

\* _discover_with_requests, lines 300-301: the request fails or the status is an
\* error; nothing in the function catches it
RqRaises ==
    /\ c_pc = "rq"
    /\ c_current_url \notin c_visited
    /\ c_visited' = c_visited \cup {c_current_url}
    /\ c_pc' = "raised"
    /\ UNCHANGED <<lastMerge, inputVars, discoverStores, namesStore, notDiscover, discoverLocals,
                   c_strategy, c_seed, c_rows, c_page_index, c_html, c_last_signature,
                   c_repeat_count, c_current_url>>

\* ------------------------------------------------ the capability call

\* no chat_json call in progress
ChatLocalsClear ==
    /\ j_max_retries = 4
    /\ j_attempt = 1
    /\ j_last_error = "none"
    /\ j_wait = 0
    /\ j_posts = 0
    /\ j_outcome = "none"
    /\ j_calls = 0

\* no parser taken alone
ParseLocalsClear ==
    /\ p_text = <<>>
    /\ p_fn = "none"
    /\ p_out = <<>>

\* no classification taken alone
FilterLocalsClear ==
    /\ f_candidates = <<>>
    /\ f_enabled = FALSE
    /\ f_answer = "nocall"
    /\ f_names = <<>>
    /\ f_rows = <<>>

\* ------------------------------------------------ phase 1: the run

\* run locals between runs
DiscoverLocalsClear ==
    /\ d_resume = TRUE
    /\ d_require = FALSE
    /\ d_seed_start = 0
    /\ d_max_pages = 1
    /\ d_valid = <<>>
    /\ d_existing = <<>>
    /\ d_local = 0
    /\ d_new = <<>>
    /\ d_fetched = {}
    /\ d_written = {}
    /\ d_runs = 0
    /\ d_kinds = <<>>
    /\ d_dropped = {}

\* the locals of phase 2, which a phase 1 world never touches
EnrichParked ==
    /\ e_pc = "off"
    /\ e_resume = TRUE
    /\ e_workers = 1
    /\ e_fallback = TRUE
    /\ e_existing = <<>>
    /\ e_pending = <<>>
    /\ e_new = <<>>
    /\ e_queue = 1
    /\ e_running = {}
    /\ e_src = <<>>
    /\ e_done = {}
    /\ e_runs = 0

\* phase 3 run locals between runs
NormalizeLocalsClear ==
    /\ n_resume = TRUE
    /\ n_existing = <<>>
    /\ n_existing_review = <<>>
    /\ n_pending = <<>>
    /\ n_new = <<>>
    /\ n_review = <<>>
    /\ n_row_key = "function"
    /\ n_calls = <<>>
    /\ n_answers = <<>>
    /\ n_runs = 0

\* the stores and locals of phase 3 and of the export, which the worlds of
\* phases 1 and 2 never touch
NormalizeParked ==
    /\ normalizedStore = <<>> /\ reviewStore = <<>> /\ exportStore = <<>>
    /\ n_pc = "off"
    /\ NormalizeLocalsClear
    /\ lastMerge = "none"

InitDiscover ==
    /\ cmd = "phase1"
    /\ apiKey \in BOOLEAN
    /\ playwright \in BOOLEAN
    /\ seedCsv \in SeedFiles
    /\ web \in {{page} : page \in RunPages}
    /\ headers = {}
    /\ seedIssues = <<>> /\ pagesDir = <<>> /\ listingStore = <<>> /\ candidateStore = <<>>
    /\ namesStore = <<>>
    /\ enrichedStore = <<>>
    /\ d_pc = "idle" /\ DiscoverLocalsClear
    /\ c_pc = "off" /\ CrawlLocalsClear
    /\ j_pc = "off" /\ ChatLocalsClear
    /\ f_pc = "off" /\ FilterLocalsClear
    /\ p_pc = "off" /\ ParseLocalsClear
    /\ EnrichParked
    /\ NormalizeParked

\* run(), lines 377-400: validate the seeds, write the issues, window the seeds,
\* read the listing rows of earlier runs
StartDiscover(max_pages_per_seed, seed_start, seed_limit, resume, require_deepseek) ==
    /\ cmd = "phase1"
    /\ d_pc \notin {"seeds", "persisted"}
    /\ d_runs < MaxRuns
    /\ d_runs' = d_runs + 1
    /\ d_kinds' = <<>>
    /\ d_dropped' = {}
    /\ seedIssues' = validate_seed_rows(seedCsv).issues
    /\ d_valid' = SeedWindow(validate_seed_rows(seedCsv).valid_rows, seed_start, seed_limit)
    /\ d_existing' = IF resume THEN listingStore ELSE <<>>
    /\ d_pc' = "seeds"
    /\ d_resume' = resume
    /\ d_require' = require_deepseek
    /\ d_seed_start' = seed_start
    /\ d_max_pages' = max_pages_per_seed
    /\ d_local' = 0
    /\ d_new' = <<>>
    /\ d_fetched' = {}
    /\ d_written' = {"issues"}
    /\ UNCHANGED <<lastMerge, inputVars, pagesDir, listingStore, candidateStore, namesStore,
                   notDiscover, c_pc, crawlLocalsRest>>

\* processed_seed_indices, lines 389-398
ProcessedSeedIndices(existing_listing_rows) ==
    {existing_listing_rows[i].seed_row_index : i \in 1..Len(existing_listing_rows)}

\* run(), lines 401-412: the loop reaches its next seed and skips it ...
SkipSeed ==
    /\ d_pc = "seeds" /\ c_pc = "off"
    /\ d_local < Len(d_valid)
    /\ d_resume /\ (d_seed_start + d_local) \in ProcessedSeedIndices(d_existing)
    /\ d_local' = d_local + 1
    /\ UNCHANGED <<lastMerge, inputVars, discoverStores, namesStore, notDiscover, d_pc, d_resume,
                   d_require, d_seed_start, d_max_pages, d_valid, d_existing, d_new,
                   d_fetched, d_written, d_runs, d_kinds, d_dropped, c_pc, crawlLocalsRest>>

\* ... or crawls it (lines 413-436), with the browser when it is available
CrawlSeed ==
    /\ d_pc = "seeds" /\ c_pc = "off"
    /\ d_local < Len(d_valid)
    /\ ~(d_resume /\ (d_seed_start + d_local) \in ProcessedSeedIndices(d_existing))
    /\ LET seed == d_valid[d_local + 1]
       IN EnterCrawl(IF playwright THEN "pw" ELSE "rq",
                     [department_name_zh |-> seed.department_name_zh,
                      school_name_zh |-> seed.school_name_zh,
                      start_url |-> seed.faculty_list_url,
                      seed_row_index |-> d_seed_start + d_local,
                      max_pages_per_seed |-> d_max_pages])
    /\ UNCHANGED <<lastMerge, inputVars, discoverStores, namesStore, notDiscover, discoverLocals>>

\* lines 423-424 and 436: listing_rows_new.extend(rows), on to the next seed
SeedCrawled ==
    /\ d_pc = "seeds" /\ c_pc = "returned"
    /\ d_new' = d_new \o c_rows
    /\ d_local' = d_local + 1
    /\ c_pc' = "off"
    /\ ClearCrawlLocals
    /\ UNCHANGED <<lastMerge, inputVars, discoverStores, namesStore, notDiscover, d_pc, d_resume,
                   d_require, d_seed_start, d_max_pages, d_valid, d_existing,
                   d_fetched, d_written, d_runs, d_kinds, d_dropped>>

\* lines 425-428: the browser crawl raised; its rows are dropped and the seed is
\* crawled again with plain requests
PwFallback ==
    /\ d_pc = "seeds" /\ c_pc = "raised" /\ c_strategy = "pw"
    /\ EnterCrawl("rq", c_seed)
    /\ d_dropped' = IF c_rows # <<>> THEN d_dropped \cup {c_seed.seed_row_index} ELSE d_dropped
    /\ UNCHANGED <<lastMerge, inputVars, discoverStores, namesStore, notDiscover, d_pc, d_resume,
                   d_require, d_seed_start, d_max_pages, d_valid, d_existing, d_local,
                   d_new, d_fetched, d_written, d_runs, d_kinds>>

\* the run ends without reaching its next write: what it had collected (d_new)
\* stays in view as what the ended process had computed
EndDiscover(how) ==
    /\ d_pc' = how
    /\ d_valid' = <<>>
    /\ d_existing' = <<>>
    /\ d_local' = 0
    /\ c_pc' = "off"
    /\ ClearCrawlLocals
    /\ d_resume' = TRUE
    /\ d_require' = FALSE
    /\ d_seed_start' = 0
    /\ d_max_pages' = 1
    /\ UNCHANGED <<lastMerge, inputVars, discoverStores, namesStore, notDiscover, d_new, d_fetched,
                   d_written, d_runs, d_kinds, d_dropped>>

\* lines 428-436: the requests crawl raised; run() does not catch it
AbortDiscover ==
    /\ d_pc = "seeds" /\ c_pc = "raised" /\ c_strategy = "rq"
    /\ EndDiscover("aborted")

\* run(), lines 438-506: every seed is done; merge and write the listing rows,
\* harvest the candidates of the pages not harvested before, merge and write them
PersistPages ==
    /\ d_pc = "seeds" /\ c_pc = "off"
    /\ d_local = Len(d_valid)
    /\ LET listing_rows == MergeListing(d_existing, d_new)
           existing_candidate_rows == IF d_resume THEN candidateStore ELSE <<>>
           existing_candidate_html_paths ==
               {existing_candidate_rows[i].html_path : i \in 1..Len(existing_candidate_rows)}
           candidate_rows_new ==
               CandidateRowsNew(listing_rows, existing_candidate_html_paths, d_resume, pagesDir)
       IN /\ listingStore' = listing_rows
          /\ candidateStore' = MergeCandidates(existing_candidate_rows, candidate_rows_new)
          /\ lastMerge' = IF Clash(d_existing, d_new, ListingKey) THEN "listing"
                          ELSE IF Clash(existing_candidate_rows, candidate_rows_new, CandidateKey)
                               THEN "candidates" ELSE "none"
    /\ d_pc' = "persisted"
    /\ d_written' = d_written \cup {"listing", "candidates"}
    /\ UNCHANGED <<inputVars, seedIssues, pagesDir, namesStore, notDiscover, d_resume,
                   d_require, d_seed_start, d_max_pages, d_valid, d_existing, d_local,
                   d_new, d_fetched, d_runs, d_kinds, d_dropped, crawlLocals>>

\* run(), lines 520-525: strict mode without a credential
StrictRaises ==
    /\ d_pc = "persisted"
    /\ d_require /\ ~apiKey
    /\ EndDiscover("strict_failed")

\* run(), lines 508-588: classify the candidates group by group, merge the new
\* name rows behind the persisted ones and write the names; the process ends
Classify ==
    /\ d_pc = "persisted"
    /\ ~(d_require /\ ~apiKey)
    /\ \E kinds \in [1..Len(SchoolGroups(candidateStore)) -> AnswerKinds] :
          LET existing_professor_rows == IF d_resume THEN namesStore ELSE <<>>
              professor_rows_new ==
                  ProfessorRowsNew(SchoolGroups(candidateStore), candidateStore,
                                   existing_professor_rows, d_resume, apiKey, kinds)
          IN /\ namesStore' = MergeNames(existing_professor_rows, professor_rows_new)
             /\ d_kinds' = IF apiKey THEN kinds ELSE <<>>
             /\ lastMerge' = IF Clash(existing_professor_rows, professor_rows_new, NameKey)
                             THEN "names" ELSE "none"
    /\ d_pc' = "idle"
    /\ d_resume' = TRUE
    /\ d_require' = FALSE
    /\ d_seed_start' = 0
    /\ d_max_pages' = 1
    /\ d_valid' = <<>>
    /\ d_existing' = <<>>
    /\ d_local' = 0
    /\ d_new' = <<>>
    /\ d_fetched' = {}
    /\ d_written' = {}
    /\ UNCHANGED <<inputVars, discoverStores, notDiscover, d_runs, d_dropped, crawlLocals>>

\* the process is killed during the run: no file is touched
KillDiscover ==
    /\ d_pc \in {"seeds", "persisted"}
    /\ EndDiscover("killed")

NextDiscover ==
    \/ \E seed_start \in 0..MaxLimit, seed_limit \in 0..MaxLimit, resume \in BOOLEAN,
          require_deepseek \in BOOLEAN :
          StartDiscover(MaxRunPages, seed_start, seed_limit, resume, require_deepseek)
    \/ SkipSeed
    \/ CrawlSeed
    \/ PwGoto
    \/ PwPage
    \/ PwRaises
    \/ PwFallback
    \/ RqPage
    \/ RqRaises
    \/ SeedCrawled
    \/ AbortDiscover
    \/ PersistPages
    \/ StrictRaises
    \/ Classify
    \/ KillDiscover

SpecDiscover == InitDiscover /\ [][NextDiscover]_vars

\* -------------------------------------- phase 1: a crawl function on its own

InitCrawl ==
    /\ cmd = "crawl"
    /\ apiKey = FALSE
    /\ playwright = TRUE
    /\ seedCsv = <<SeedA>>
    /\ web = CrawlPages
    /\ headers = {}
    /\ seedIssues = <<>> /\ pagesDir = <<>> /\ listingStore = <<>> /\ candidateStore = <<>>
    /\ namesStore = <<>>
    /\ enrichedStore = <<>>
    /\ d_pc = "off" /\ DiscoverLocalsClear
    /\ c_pc = "off" /\ CrawlLocalsClear
    /\ j_pc = "off" /\ ChatLocalsClear
    /\ f_pc = "off" /\ FilterLocalsClear
    /\ p_pc = "off" /\ ParseLocalsClear
    /\ EnrichParked
    /\ NormalizeParked

\* _discover_with_playwright or _discover_with_requests is called on the seed
\* the pages a crawl has saved, in the order of its rows
SavedPages(rows) == [k \in 1..Len(rows) |-> pagesDir[rows[k].html_path]]

CallCrawl(strategy, max_pages_per_seed) ==
    /\ cmd = "crawl"
    /\ c_pc \in {"off", "returned"}
    /\ d_runs < MaxCalls
    /\ d_runs' = d_runs + 1
    /\ c_prev' = IF c_pc = "returned"
                 THEN [strategy |-> c_strategy,
                       max_pages_per_seed |-> c_seed.max_pages_per_seed,
                       rows |-> c_rows, repeat_count |-> c_repeat_count,
                       pages |-> SavedPages(c_rows)]
                 ELSE c_prev
    /\ EnterCrawl(strategy, [department_name_zh |-> SeedA.department_name_zh,
                             school_name_zh |-> SeedA.school_name_zh,
                             start_url |-> SeedA.faculty_list_url,
                             seed_row_index |-> 0,
                             max_pages_per_seed |-> max_pages_per_seed])
    /\ UNCHANGED <<lastMerge, cmd, apiKey, playwright, seedCsv, web, headers, discoverStores,
                   namesStore, notDiscover, d_pc, d_resume,
                   d_require, d_seed_start, d_max_pages, d_valid, d_existing, d_local,
                   d_new, d_fetched, d_written, d_kinds, d_dropped>>

NextCrawl ==
    \/ \E strategy \in {"pw", "rq"}, max_pages_per_seed \in 1..MaxPages :
          CallCrawl(strategy, max_pages_per_seed)
    \/ cmd = "crawl" /\ PwGoto
    \/ cmd = "crawl" /\ PwPage
    \/ cmd = "crawl" /\ PwRaises
    \/ cmd = "crawl" /\ RqPage
    \/ cmd = "crawl" /\ RqRaises

SpecCrawl == InitCrawl /\ [][NextCrawl]_vars

\* a crawl function that was called keeps running until it returns or raises
\* a step of the crawl function that is running
CrawlStep == cmd = "crawl" /\ (PwRaises \/ RqRaises \/ RqPage \/ PwGoto \/ PwPage)

SpecCrawlFair == SpecCrawl /\ WF_vars(CrawlStep)

\* ------------------------------------------------ phase 2: pure functions

\* the professor-name rows the names store is drawn from: two as discovery writes
\* them (no profile link), one with a profile link filled in
NameRows ==
    { [department_name_zh |-> Dept, school_name_zh |-> School,
       name_zh |-> <<24352, 19977>>, name_en |-> <<>>, profile_url |-> <<>>],
      [department_name_zh |-> Dept, school_name_zh |-> School,
       name_zh |-> <<26446, 22235>>, name_en |-> <<>>, profile_url |-> <<>>],
      [department_name_zh |-> Dept, school_name_zh |-> School,
       name_zh |-> <<>>, name_en |-> <<76, 105, 32, 77, 105, 110, 103>>,
       profile_url |-> <<"http", "phy.edu", "liming">>] }

PayloadKeys == {"name_en", "title", "profile_url", "bs_school", "ms_school",
                "phd_school", "join_pku_year", "notes"}

\* the empty value of a field: "" for a string, <<>> for a character text, for a
\* URL (the sequence of its parts) and for the "; "-joined list of notes
EmptyOf(key) == IF key = "title" THEN "" ELSE <<>>

EmptyPayload == [key \in PayloadKeys |-> EmptyOf(key)]

\* what parse_json_obj yields from the capability's text: a full answer
\* (name_en "Zhang San", bs an alias of PKU in Chinese script, phd "MIT", year
\* " 2005") and a partial one (bs a name holding an alias of CAS, a year the
\* pattern does not match: "2005" followed by an ideograph)
Payloads ==
    { [EmptyPayload EXCEPT !.name_en = <<90, 104, 97, 110, 103, 32, 83, 97, 110>>,
                           !.title = "professor",
                           !.bs_school = <<21271, 20140, 22823, 23398, 29289, 29702, 31995>>,
                           !.phd_school = <<77, 73, 84>>,
                           !.join_pku_year = <<32, 50, 48, 48, 53>>],
      [EmptyPayload EXCEPT !.bs_school = <<20013, 31185, 38498, 29289, 29702, 30740, 31350, 25152>>,
                           !.join_pku_year = <<50, 48, 48, 53, 24180>>,
                           !.notes = <<"partial">>] }

\* a capability call as seen by its caller: chat_json returned text (parsed to
\* payload) or raised after its retries
Responses == [ok : {TRUE}, payload : Payloads] \cup {[ok |-> FALSE, payload |-> EmptyPayload]}

\* _fetch_profile_text_with_secondary_links on a non-empty link: text obtained, no
\* text (fetch failed, empty page), or an error escaping it (urljoin on a malformed href)
FetchOutcomes == {"text", "none", "raise"}

_row_key(row) ==
    <<row.department_name_zh, row.school_name_zh, row.name_zh, row.name_en>>

\* a status that looks at the bachelor institution only
StatusByBachelorOnly(row) ==
    IF Strip(row.bs_school) # <<>> THEN "complete" ELSE "incomplete"

_completion_status(row) ==
    IF Strip(row.bs_school) # <<>> /\ Strip(row.phd_school) # <<>>
       /\ Strip(row.join_pku_year) # <<>>
    THEN "complete" ELSE "incomplete"

_default_enriched(row) ==
    [department_name_zh |-> row.department_name_zh,
     school_name_zh |-> row.school_name_zh,
     name_zh |-> row.name_zh,
     name_en |-> row.name_en,
     title |-> "",
     profile_url |-> row.profile_url,
     bs_school |-> <<>>,
     ms_school |-> <<>>,
     phd_school |-> <<>>,
     join_pku_year |-> <<>>,
     status |-> "incomplete",
     notes |-> <<>>]

\* re.search(r"\b(19\d{2}|20\d{2})\b", text): the leftmost 4-digit year standing
\* between word boundaries
YearAt(t, i) ==
    /\ i + 3 <= Len(t)
    /\ \/ t[i] = 49 /\ t[i + 1] = 57
       \/ t[i] = 50 /\ t[i + 1] = 48
    /\ IsDigit(t[i + 2]) /\ IsDigit(t[i + 3])
    /\ (i = 1 \/ ~IsWordChar(t[i - 1]))
    /\ (i + 4 > Len(t) \/ ~IsWordChar(t[i + 4]))

\* match.group(1) if match else ""
YearMatch(text, hits) == IF hits = {} THEN <<>> ELSE SubSeq(text, Min(hits), Min(hits) + 3)

YearSearch(text) == YearMatch(text, {i \in 1..Len(text) : YearAt(text, i)})

_normalize_year(value) == YearSearch(Strip(value))

\* the fields of a record that hold plain text; a kind, a link or a list of notes
\* has no blanks to strip
IsTextKey(key) == key \notin {"title", "profile_url", "notes"}

\* str(d.get(key, "") or "").strip()
Stripped(d, key) == IF IsTextKey(key) THEN Strip(d[key]) ELSE d[key]

\* a pass that takes the payload's value whatever the record holds
ApplyKeyAlways(result, value, blank, key, fill_only_missing) == value

\* _apply_payload, lines 204-209: what result[key] is after the pass for key
ApplyKey(result, value, blank, key, fill_only_missing) ==
    IF fill_only_missing
    THEN IF blank /\ value # EmptyOf(key) THEN value ELSE result[key]
    ELSE value

_apply_payload(result, payload, fill_only_missing) ==
    [f \in DOMAIN result |->
        IF f = "join_pku_year"
        THEN _normalize_year(ApplyKey(result, Stripped(payload, f),
                                      Stripped(result, f) = EmptyOf(f), f, fill_only_missing))
        ELSE IF f \in PayloadKeys
        THEN ApplyKey(result, Stripped(payload, f), Stripped(result, f) = EmptyOf(f), f,
                      fill_only_missing)
        ELSE result[f]]

\* a test that looks at the bachelor institution only
NeedsWhenNoBachelor(result) == Strip(result.bs_school) = <<>>

_needs_search_fallback(result) ==
    ~(Strip(result.bs_school) # <<>> /\ Strip(result.phd_school) # <<>>
      /\ Strip(result.join_pku_year) # <<>>)

\* a note that replaces the notes already there
AddNoteReplacing(result, suffix) == [result EXCEPT !.notes = <<suffix>>]

\* f"{existing_notes}; {suffix}" if existing_notes else suffix
AddNote(result, suffix) == [result EXCEPT !.notes = Append(@, suffix)]

\* _enrich_one on row, given whether the client is enabled and what the network and
\* the capability answer: fetch for the profile pages, r1 for the profile prompt,
\* r2 for the search prompt.  Yields the record, the calls made (fetches and
\* capability calls), and whether an error escaped instead.
\* result["status"] = _completion_status(result)
WithStatus(result) == [result EXCEPT !.status = _completion_status(result)]

\* _enrich_one, lines 232-252: the profile-grounded step
ProfileStep(result, has_text, r1) ==
    IF ~has_text THEN result
    ELSE IF r1.ok THEN _apply_payload(result, r1.payload, FALSE)
    ELSE [result EXCEPT !.notes = <<"profile_extract_error">>]

\* _enrich_one, lines 254-290: the search step and the status
SearchStep(result, needs, enable_web_search_fallback, r2, calls) ==
    [raised |-> FALSE,
     rec |-> WithStatus(IF enable_web_search_fallback /\ needs
                        THEN IF r2.ok THEN _apply_payload(result, r2.payload, TRUE)
                             ELSE AddNote(result, "deepseek_error")
                        ELSE IF needs THEN AddNote(result, "web_search_disabled")
                        ELSE result),
     calls |-> calls + IF enable_web_search_fallback /\ needs THEN 1 ELSE 0]

AfterProfile(result, enable_web_search_fallback, r2, calls) ==
    SearchStep(result, _needs_search_fallback(result), enable_web_search_fallback, r2, calls)

EnrichFrom(result, enabled, enable_web_search_fallback, fetch, r1, r2) ==
    IF ~enabled THEN [raised |-> FALSE, rec |-> result, calls |-> 0]
    ELSE IF result.profile_url # <<>> /\ fetch = "raise"
    THEN [raised |-> TRUE, rec |-> result, calls |-> 1]
    ELSE AfterProfile(ProfileStep(result, result.profile_url # <<>> /\ fetch = "text", r1),
                      enable_web_search_fallback, r2,
                      IF result.profile_url = <<>> THEN 0
                      ELSE IF fetch = "text" THEN 2 ELSE 1)

_enrich_one(row, enabled, enable_web_search_fallback, fetch, r1, r2) ==
    EnrichFrom(_default_enriched(row), enabled, enable_web_search_fallback, fetch, r1, r2)

\* the except branch of the pool's harvest loop
ConcurrentFallback(seed_row) ==
    WithStatus([_default_enriched(seed_row) EXCEPT !.notes = <<"concurrent_enrich_error">>])

\* a work list that takes every name whatever the store holds
EnrichPendingAll(names, existing_rows) == names

\* pending = [row for row in names if _row_key(row) not in existing_keys]
EnrichPending(names, existing_rows) ==
    SelectSeq(names, LAMBDA row : \A j \in 1..Len(existing_rows) :
                                      _row_key(existing_rows[j]) # _row_key(row))

\* a merge that appends the new rows without looking at their keys
MergeEnrichedKeepAll(existing_rows, new_rows) == existing_rows \o new_rows

\* merged_map over existing_rows then new_rows, then status recomputed on every row
StatusOnEach(enriched_rows) == [i \in 1..Len(enriched_rows) |-> WithStatus(enriched_rows[i])]

MergeEnriched(existing_rows, new_rows) ==
    StatusOnEach(DictValues(existing_rows \o new_rows, _row_key))

\* ------------------------------------------------------ phase 2: the run

\* run locals between runs
EnrichLocalsClear ==
    /\ e_resume = TRUE
    /\ e_workers = 1
    /\ e_fallback = TRUE
    /\ e_existing = <<>>
    /\ e_pending = <<>>
    /\ e_new = <<>>
    /\ e_queue = 1
    /\ e_running = {}
    /\ e_src = <<>>
    /\ e_done = {}
    /\ e_runs = 0

InitEnrich ==
    /\ cmd = "phase2"
    /\ apiKey \in BOOLEAN
    /\ playwright = FALSE /\ seedCsv = <<>> /\ web = {} /\ headers = {}
    /\ seedIssues = <<>> /\ pagesDir = <<>> /\ listingStore = <<>> /\ candidateStore = <<>>
    /\ d_pc = "off" /\ DiscoverLocalsClear
    /\ c_pc = "off" /\ CrawlLocalsClear
    /\ j_pc = "off" /\ ChatLocalsClear
    /\ f_pc = "off" /\ FilterLocalsClear
    /\ p_pc = "off" /\ ParseLocalsClear
    /\ namesStore \in DistinctSeqs(NameRows, MaxNames)
    /\ enrichedStore = <<>>
    /\ e_pc = "idle"
    /\ EnrichLocalsClear
    /\ NormalizeParked

\* run(), lines 315-325: read the stores, filter the work list
StartEnrich(limit, resume, workers, enable_web_search_fallback) ==
    /\ cmd = "phase2"
    /\ e_pc # "run"
    /\ e_runs < MaxRuns
    /\ e_runs' = e_runs + 1
    /\ e_pc' = "run"
    /\ e_resume' = resume
    /\ e_workers' = workers
    /\ e_fallback' = enable_web_search_fallback
    /\ e_existing' = IF resume THEN enrichedStore ELSE <<>>
    /\ e_pending' = Truncate(EnrichPending(namesStore, e_existing'), limit)
    /\ e_new' = <<>>
    /\ e_src' = <<>>
    /\ e_queue' = 1
    /\ e_running' = {}
    /\ UNCHANGED <<lastMerge, notEnrich, cmd, apiKey, namesStore, enrichedStore, e_done>>

\* workers == 1: one pass of "for row in pending" that returns normally
EnrichSequential ==
    /\ e_pc = "run"
    /\ e_workers = 1
    /\ Len(e_new) < Len(e_pending)
    /\ \E fetch \in FetchOutcomes, r1 \in Responses, r2 \in Responses :
          LET row == e_pending[Len(e_new) + 1]
              out == _enrich_one(row, apiKey, e_fallback, fetch, r1, r2)
          IN /\ ~out.raised
             /\ e_new' = Append(e_new, out.rec)
             /\ e_src' = Append(e_src, [row |-> row, calls |-> out.calls, raised |-> FALSE])
    /\ UNCHANGED <<lastMerge, notEnrich, cmd, apiKey, namesStore, enrichedStore, e_pc, e_resume, e_workers,
                   e_fallback, e_existing, e_pending, e_queue, e_running, e_done, e_runs>>

\* the run ends without reaching its writes: the rows finished so far stay in
\* view (e_new, e_src) as what the ended process had computed
EndWithoutWrite(how) ==
    /\ e_pc' = how
    /\ e_resume' = TRUE
    /\ e_workers' = 1
    /\ e_fallback' = TRUE
    /\ e_existing' = <<>>
    /\ e_pending' = <<>>
    /\ e_queue' = 1
    /\ e_running' = {}
    /\ UNCHANGED <<lastMerge, notEnrich, cmd, apiKey, namesStore, enrichedStore, e_new, e_src, e_done, e_runs>>

\* workers == 1: an error escapes _enrich_one; nothing in run() catches it
EnrichSequentialRaises ==
    /\ e_pc = "run"
    /\ e_workers = 1
    /\ Len(e_new) < Len(e_pending)
    /\ \E fetch \in FetchOutcomes, r1 \in Responses, r2 \in Responses :
          _enrich_one(e_pending[Len(e_new) + 1], apiKey, e_fallback, fetch, r1, r2).raised
    /\ EndWithoutWrite("aborted")

\* a pool that runs the task at the head of the queue and leaves it queued
PoolTakeTaskAgain ==
    /\ e_pc = "run"
    /\ e_workers > 1
    /\ e_queue <= Len(e_pending)
    /\ Cardinality(e_running) < e_workers
    /\ e_running' = e_running \cup {e_queue}
    /\ UNCHANGED <<lastMerge, notEnrich, cmd, apiKey, namesStore, enrichedStore, e_pc, e_resume, e_workers,
                   e_fallback, e_existing, e_pending, e_new, e_src, e_done, e_runs, e_queue>>

\* workers > 1: a free worker of the pool takes the next submitted task
PoolTakeTask ==
    /\ e_pc = "run"
    /\ e_workers > 1
    /\ e_queue <= Len(e_pending)
    /\ Cardinality(e_running) < e_workers
    /\ e_running' = e_running \cup {e_queue}
    /\ e_queue' = e_queue + 1
    /\ UNCHANGED <<lastMerge, notEnrich, cmd, apiKey, namesStore, enrichedStore, e_pc, e_resume, e_workers,
                   e_fallback, e_existing, e_pending, e_new, e_src, e_done, e_runs>>

\* workers > 1: a task completes and as_completed hands it to the harvest loop
PoolHarvest ==
    /\ e_pc = "run"
    /\ e_workers > 1
    /\ \E i \in e_running, fetch \in FetchOutcomes, r1 \in Responses, r2 \in Responses :
          LET seed_row == e_pending[i]
              out == _enrich_one(seed_row, apiKey, e_fallback, fetch, r1, r2)
          IN /\ e_running' = e_running \ {i}
             /\ e_new' = Append(e_new, IF out.raised THEN ConcurrentFallback(seed_row)
                                       ELSE out.rec)
             /\ e_src' = Append(e_src, [row |-> seed_row, calls |-> out.calls,
                                        raised |-> out.raised])
    /\ UNCHANGED <<lastMerge, notEnrich, cmd, apiKey, namesStore, enrichedStore, e_pc, e_resume, e_workers,
                   e_fallback, e_existing, e_pending, e_queue, e_done, e_runs>>

\* run(), lines 348-355: merge and write the store; the process then ends and its
\* locals with it
FinishEnrich ==
    /\ e_pc = "run"
    /\ Len(e_new) = Len(e_pending)
    /\ enrichedStore' = MergeEnriched(e_existing, e_new)
    /\ lastMerge' = IF Clash(e_existing, e_new, _row_key) THEN "enriched" ELSE "none"
    /\ e_done' = (IF e_resume THEN e_done ELSE {})
                    \cup {_row_key(e_src[i].row) : i \in 1..Len(e_src)}
    /\ e_pc' = "idle"
    /\ e_resume' = TRUE
    /\ e_workers' = 1
    /\ e_fallback' = TRUE
    /\ e_existing' = <<>>
    /\ e_pending' = <<>>
    /\ e_new' = <<>>
    /\ e_src' = <<>>
    /\ e_queue' = 1
    /\ e_running' = {}
    /\ UNCHANGED <<notEnrich, cmd, apiKey, namesStore, e_runs>>

\* the process is killed during the run: no file is touched
KillEnrich ==
    /\ e_pc = "run"
    /\ EndWithoutWrite("killed")

NextEnrich ==
    \/ \E limit \in 0..MaxLimit, resume \in BOOLEAN, workers \in 1..MaxWorkers,
          fb \in BOOLEAN : StartEnrich(limit, resume, workers, fb)
    \/ EnrichSequential
    \/ EnrichSequentialRaises
    \/ PoolTakeTask
    \/ PoolHarvest
    \/ FinishEnrich
    \/ KillEnrich

SpecEnrich == InitEnrich /\ [][NextEnrich]_vars

\* a names store whose profile links were filled in: two rows of the same
\* institution, an English name and a profile link each
NamesWithProfiles ==
    << [department_name_zh |-> Dept, school_name_zh |-> School,
        name_zh |-> <<>>, name_en |-> <<76, 105, 32, 77, 105, 110, 103>>,
        profile_url |-> <<"http", "phy.edu", "liming">>],
       [department_name_zh |-> Dept, school_name_zh |-> School,
        name_zh |-> <<>>, name_en |-> <<87, 97, 110, 103, 32, 87, 117>>,
        profile_url |-> <<"http", "phy.edu", "wangwu">>] >>

\* enrichment of that names store, a credential configured
InitEnrichProfiles ==
    /\ cmd = "phase2"
    /\ apiKey = TRUE
    /\ playwright = FALSE /\ seedCsv = <<>> /\ web = {} /\ headers = {}
    /\ seedIssues = <<>> /\ pagesDir = <<>> /\ listingStore = <<>> /\ candidateStore = <<>>
    /\ d_pc = "off" /\ DiscoverLocalsClear
    /\ c_pc = "off" /\ CrawlLocalsClear
    /\ j_pc = "off" /\ ChatLocalsClear
    /\ f_pc = "off" /\ FilterLocalsClear
    /\ p_pc = "off" /\ ParseLocalsClear
    /\ namesStore = NamesWithProfiles
    /\ enrichedStore = <<>>
    /\ e_pc = "idle"
    /\ EnrichLocalsClear
    /\ NormalizeParked

SpecEnrichProfiles == InitEnrichProfiles /\ [][NextEnrich]_vars

\* ------------------------------------------------ phase 3: pure functions

\* the alias table in dict order: << alias, standard code >>
ALIAS_TO_STD ==
    << << <<21271, 22823>>, <<80, 75, 85>> >>,
       << <<21271, 20140, 22823, 23398>>, <<80, 75, 85>> >>,
       << <<21271, 20140, 22823, 23398, 29289, 29702, 23398, 38498>>, <<80, 75, 85>> >>,
       << <<21271, 20140, 22823, 23398, 29289, 29702, 31995>>, <<80, 75, 85>> >>,
       << <<20013, 22269, 31185, 23398, 38498>>, <<67, 65, 83>> >>,
       << <<20013, 31185, 38498>>, <<67, 65, 83>> >>,
       << <<20013, 31185, 38498, 29289, 29702, 25152>>, <<67, 65, 83>> >>,
       << <<20013, 22269, 31185, 23398, 38498, 29289, 29702, 30740, 31350, 25152>>,
          <<67, 65, 83>> >>,
       << <<28165, 21326, 22823, 23398>>, <<84, 72, 85>> >>,
       << <<22797, 26086, 22823, 23398>>, <<70, 68, 85>> >>,
       << <<19978, 28023, 20132, 36890, 22823, 23398>>, <<83, 74, 84, 85>> >>,
       << <<27993, 27743, 22823, 23398>>, <<90, 74, 85>> >>,
       << <<21335, 20140, 22823, 23398>>, <<78, 74, 85>> >>,
       << <<20013, 22269, 31185, 23398, 25216, 26415, 22823, 23398>>, <<85, 83, 84, 67>> >>,
       << <<27494, 27721, 22823, 23398>>, <<87, 72, 85>> >>,
       << <<21513, 26519, 22823, 23398>>, <<74, 76, 85>> >> >>

\* str.upper()
Upper(text) == [i \in 1..Len(text) |-> IF IsLower(text[i]) THEN text[i] - 32 ELSE text[i]]

\* _map_deterministic: mapped is FALSE for None
\* the first alias, in the order of the table, that passes the test
FirstAlias(hits) ==
    IF hits = {} THEN [mapped |-> FALSE, abbr |-> <<>>]
    ELSE [mapped |-> TRUE, abbr |-> ALIAS_TO_STD[Min(hits)][2]]

\* the table searched for an equal alias only
MapTextExactOnly(text) ==
    IF text = <<>> THEN [mapped |-> TRUE, abbr |-> <<>>]
    ELSE FirstAlias({i \in 1..Len(ALIAS_TO_STD) : ALIAS_TO_STD[i][1] = text})

MapText(text) ==
    IF text = <<>> THEN [mapped |-> TRUE, abbr |-> <<>>]
    ELSE IF \E i \in 1..Len(ALIAS_TO_STD) : ALIAS_TO_STD[i][1] = text
    THEN FirstAlias({i \in 1..Len(ALIAS_TO_STD) : ALIAS_TO_STD[i][1] = text})
    ELSE FirstAlias({i \in 1..Len(ALIAS_TO_STD) : Contains(text, ALIAS_TO_STD[i][1])})

_map_deterministic(name) == MapText(Strip(name))

\* what the capability answers to a normalization prompt: chat_json raises, or its
\* text parses to an object with a code and a confidence (in tenths: 8 is 0.8)
NormAnswers ==
    { [ok |-> FALSE, abbr |-> <<>>, confidence |-> 0],
      [ok |-> TRUE, abbr |-> <<32, 109, 105, 116>>, confidence |-> 8],
      [ok |-> TRUE, abbr |-> <<77, 73, 84>>, confidence |-> 7],
      [ok |-> TRUE, abbr |-> <<>>, confidence |-> 10] }

\* _map_with_deepseek: the code, the confidence, the reason, and the calls made
_map_with_deepseek(name, enabled, answer) ==
    IF Strip(name) = <<>>
    THEN [abbr |-> <<>>, confidence |-> 10, reason |-> "empty", calls |-> 0]
    ELSE IF ~enabled
    THEN [abbr |-> <<>>, confidence |-> 0, reason |-> "client_disabled", calls |-> 0]
    ELSE IF answer.ok
    THEN [abbr |-> Upper(Strip(answer.abbr)), confidence |-> answer.confidence,
          reason |-> "", calls |-> 1]
    ELSE [abbr |-> <<>>, confidence |-> 0, reason |-> "deepseek_error", calls |-> 1]

\* a threshold that 0.8 itself does not pass
FieldFromModelStrict(text, model, row_key, field_name) ==
    IF model.abbr # <<>> /\ model.confidence > 8
    THEN [value |-> model.abbr, review |-> <<>>, calls |-> model.calls]
    ELSE [value |-> text,
          review |-> << [row_key |-> row_key, field |-> field_name,
                         original_value |-> text, model_abbr |-> model.abbr,
                         confidence |-> model.confidence, reason |-> model.reason] >>,
          calls |-> model.calls]

\* _normalize_field: the value of the field, the review rows appended (none or
\* one), the calls made
\* _normalize_field, lines 84-99
FieldFromModel(text, model, row_key, field_name) ==
    IF model.abbr # <<>> /\ model.confidence >= 8
    THEN [value |-> model.abbr, review |-> <<>>, calls |-> model.calls]
    ELSE [value |-> text,
          review |-> << [row_key |-> row_key, field |-> field_name,
                         original_value |-> text, model_abbr |-> model.abbr,
                         confidence |-> model.confidence, reason |-> model.reason] >>,
          calls |-> model.calls]

\* _normalize_field, lines 80-84
FieldFromTable(text, mapped, enabled, answer, row_key, field_name) ==
    IF mapped.mapped THEN [value |-> mapped.abbr, review |-> <<>>, calls |-> 0]
    ELSE FieldFromModel(text, _map_with_deepseek(text, enabled, answer), row_key, field_name)

NormalizeText(text, enabled, answer, row_key, field_name) ==
    IF text = <<>> THEN [value |-> <<>>, review |-> <<>>, calls |-> 0]
    ELSE FieldFromTable(text, _map_deterministic(text), enabled, answer, row_key, field_name)

_normalize_field(source_value, enabled, answer, row_key, field_name) ==
    NormalizeText(Strip(source_value), enabled, answer, row_key, field_name)

SchoolFields == <<"bs_school", "ms_school", "phd_school">>

\* run(), lines 127-146: one pass of the loop over pending_rows; answers[field] is
\* what the capability answers for that field
\* a pass that also marks the record incomplete
NormalizedMarked(row, bs, ms, phd) ==
    [normalized |-> [row EXCEPT !.bs_school = bs.value, !.ms_school = ms.value,
                                !.phd_school = phd.value, !.status = "incomplete"],
     review |-> bs.review \o ms.review \o phd.review,
     calls |-> bs.calls + ms.calls + phd.calls]

NormalizedOf(row, bs, ms, phd) ==
    [normalized |-> [row EXCEPT !.bs_school = bs.value, !.ms_school = ms.value,
                                !.phd_school = phd.value],
     review |-> bs.review \o ms.review \o phd.review,
     calls |-> bs.calls + ms.calls + phd.calls]

NormalizeRow(row, enabled, answers) ==
    NormalizedOf(row,
                 _normalize_field(row.bs_school, enabled, answers.bs_school,
                                  _row_key(row), "bs_school"),
                 _normalize_field(row.ms_school, enabled, answers.ms_school,
                                  _row_key(row), "ms_school"),
                 _normalize_field(row.phd_school, enabled, answers.phd_school,
                                  _row_key(row), "phd_school"))

\* the capability was not asked about the field
NoAnswer == [ok |-> FALSE, abbr |-> <<>>, confidence |-> 0 - 1]

\* per institution field of a row: the answer _map_with_deepseek got from
\* chat_json, NoAnswer where it made no call
AnswersHeard(row, enabled, answers) ==
    [f \in Range(SchoolFields) |->
        IF _normalize_field(row[f], enabled, answers[f], _row_key(row), f).calls = 1
        THEN answers[f] ELSE NoAnswer]

\* pending_rows, line 121
NormalizePending(rows, existing_normalized_rows, resume) ==
    IF resume
    THEN SelectSeq(rows, LAMBDA row : \A j \in 1..Len(existing_normalized_rows) :
                                          _row_key(existing_normalized_rows[j]) # _row_key(row))
    ELSE rows

\* lines 148-151
MergeNormalized(existing_normalized_rows, normalized_rows_new) ==
    DictValues(existing_normalized_rows \o normalized_rows_new, _row_key)

\* lines 153-162
ReviewKey(row) == <<row.row_key, row.field, row.original_value>>

MergeReview(existing_review_rows, review_rows) ==
    DictValues(existing_review_rows \o review_rows, ReviewKey)

\* ------------------------------------------------------ phase 3: the run

\* enriched rows as phase 2 writes them: the name rows enriched by the search
\* prompt alone, under each response
EnrichedRows ==
    {_enrich_one(row, TRUE, TRUE, "none", r, r).rec : row \in NameRows, r \in Responses}

\* the enriched stores phase 3 is run on: at most MaxNames rows, no key twice
EnrichedFiles ==
    {rows \in DistinctSeqs(EnrichedRows, MaxNames) :
        \A i, j \in 1..Len(rows) : _row_key(rows[i]) = _row_key(rows[j]) => i = j}

InitNormalize ==
    /\ cmd = "phase3"
    /\ apiKey \in BOOLEAN
    /\ playwright = FALSE /\ seedCsv = <<>> /\ web = {} /\ headers = {}
    /\ seedIssues = <<>> /\ pagesDir = <<>> /\ listingStore = <<>> /\ candidateStore = <<>>
    /\ d_pc = "off" /\ DiscoverLocalsClear
    /\ c_pc = "off" /\ CrawlLocalsClear
    /\ j_pc = "off" /\ ChatLocalsClear
    /\ f_pc = "off" /\ FilterLocalsClear
    /\ p_pc = "off" /\ ParseLocalsClear
    /\ namesStore = <<>>
    /\ enrichedStore \in EnrichedFiles
    /\ EnrichParked
    /\ normalizedStore = <<>> /\ reviewStore = <<>> /\ exportStore = <<>>
    /\ n_pc = "idle"
    /\ NormalizeLocalsClear
    /\ lastMerge = "none"

\* what a phase 3 step leaves alone besides its own locals and stores
notNormalize == <<inputVars, discoverStores, namesStore, enrichedStore, discoverLocals,
                  crawlLocals, enrichLocals, chatLocals, filterLocals, parseLocals>>

\* run(), lines 103-125: read the stores, filter the work list; row_key is the
\* nested function
StartNormalize(limit, resume) ==
    /\ cmd = "phase3"
    /\ n_pc # "run"
    /\ n_runs < MaxRuns
    /\ n_runs' = n_runs + 1
    /\ n_pc' = "run"
    /\ n_resume' = resume
    /\ n_existing' = IF resume THEN normalizedStore ELSE <<>>
    /\ n_existing_review' = IF resume THEN reviewStore ELSE <<>>
    /\ n_pending' = NormalizePending(Truncate(enrichedStore, limit), n_existing', resume)
    /\ n_new' = <<>>
    /\ n_review' = <<>>
    /\ n_calls' = <<>>
    /\ n_answers' = <<>>
    /\ n_row_key' = "function"
    /\ UNCHANGED <<notNormalize, normStores, lastMerge>>

\* lines 127-146: one pass of "for row in pending_rows"; line 129 binds the local
\* name row_key to the row's key string
NormalizeNext ==
    /\ n_pc = "run"
    /\ Len(n_new) < Len(n_pending)
    /\ \E answers \in [Range(SchoolFields) -> NormAnswers] :
          LET out == NormalizeRow(n_pending[Len(n_new) + 1], apiKey, answers)
          IN /\ n_new' = Append(n_new, out.normalized)
             /\ n_review' = n_review \o out.review
             /\ n_calls' = Append(n_calls, out.calls)
             /\ n_answers' = Append(n_answers,
                                    AnswersHeard(n_pending[Len(n_new) + 1], apiKey, answers))
    /\ n_row_key' = "string"
    /\ UNCHANGED <<notNormalize, normStores, lastMerge, n_pc, n_resume, n_existing,
                   n_existing_review, n_pending, n_runs>>

\* lines 148 and 150 call row_key(row): a TypeError when the name is bound to a
\* string and there is a row to call it on
MergeCallsString ==
    /\ n_row_key = "string"
    /\ n_existing # <<>> \/ n_new # <<>>

\* the run ends without reaching its writes: the rows normalized so far stay in
\* view (n_new, n_review, n_calls) as what the ended process had computed
EndNormalize(how) ==
    /\ n_pc' = how
    /\ n_resume' = TRUE
    /\ n_existing' = <<>>
    /\ n_existing_review' = <<>>
    /\ n_pending' = <<>>
    /\ n_row_key' = "function"
    /\ UNCHANGED <<notNormalize, normStores, lastMerge, n_new, n_review, n_calls, n_answers,
                   n_runs>>

\* lines 148-150: the loop is over and the merge raises; nothing is written
NormalizeRaises ==
    /\ n_pc = "run"
    /\ Len(n_new) = Len(n_pending)
    /\ MergeCallsString
    /\ EndNormalize("aborted")

\* lines 148-165: the loop is over, the merges succeed, both stores are written;
\* the process then ends and its locals with it
FinishNormalize ==
    /\ n_pc = "run"
    /\ Len(n_new) = Len(n_pending)
    /\ ~MergeCallsString
    /\ reviewStore' = MergeReview(n_existing_review, n_review)
    /\ normalizedStore' = MergeNormalized(n_existing, n_new)
    /\ lastMerge' = IF Clash(n_existing, n_new, _row_key) THEN "normalized"
                    ELSE IF Clash(n_existing_review, n_review, ReviewKey) THEN "review"
                    ELSE "none"
    /\ n_pc' = "idle"
    /\ n_resume' = TRUE
    /\ n_existing' = <<>>
    /\ n_existing_review' = <<>>
    /\ n_pending' = <<>>
    /\ n_new' = <<>>
    /\ n_review' = <<>>
    /\ n_calls' = <<>>
    /\ n_answers' = <<>>
    /\ n_row_key' = "function"
    /\ UNCHANGED <<notNormalize, exportStore, n_runs>>

\* the process is killed during the run: no file is touched
KillNormalize ==
    /\ n_pc = "run"
    /\ EndNormalize("killed")

NextNormalize ==
    \/ \E limit \in 0..MaxLimit, resume \in BOOLEAN : StartNormalize(limit, resume)
    \/ NormalizeNext
    \/ NormalizeRaises
    \/ FinishNormalize
    \/ KillNormalize

SpecNormalize == InitNormalize /\ [][NextNormalize]_vars

\* run(limit, resume=True) started once more, however many runs came before: the
\* runs are counted up to MaxRuns only
StartNormalizeAgain(limit) ==
    /\ cmd = "phase3"
    /\ n_pc # "run"
    /\ n_runs' = IF n_runs < MaxRuns THEN n_runs + 1 ELSE n_runs
    /\ n_pc' = "run"
    /\ n_resume' = TRUE
    /\ n_existing' = normalizedStore
    /\ n_existing_review' = reviewStore
    /\ n_pending' = NormalizePending(Truncate(enrichedStore, limit), n_existing', TRUE)
    /\ n_new' = <<>>
    /\ n_review' = <<>>
    /\ n_calls' = <<>>
    /\ n_answers' = <<>>
    /\ n_row_key' = "function"
    /\ UNCHANGED <<notNormalize, normStores, lastMerge>>

\* the command "phase3 --limit L" with L of 1 or more, run again and again and
\* never killed: a started process runs to its end, and the command is given
\* again without end
NextNormalizeResume ==
    \/ \E limit \in 1..MaxLimit : StartNormalizeAgain(limit)
    \/ NormalizeNext
    \/ NormalizeRaises
    \/ FinishNormalize

SpecNormalizeResume ==
    InitNormalize /\ [][NextNormalizeResume]_vars /\ WF_vars(NextNormalizeResume)

\* ------------------------------------------------------------ the export

\* exporter._row_key: the natural key with every part stripped
export_row_key(row) ==
    <<row.department_name_zh, row.school_name_zh, Strip(row.name_zh), Strip(row.name_en)>>

\* utils.read_csv_rows: every value of a row comes back stripped
read_csv_rows(rows) ==
    [i \in 1..Len(rows) |->
        [f \in DOMAIN rows[i] |->
            IF f \in {"name_zh", "name_en", "bs_school", "ms_school", "phd_school",
                      "join_pku_year"}
            THEN Strip(rows[i][f]) ELSE rows[i][f]]]

\* the day of the export, and an earlier day
Today == "day2"
PriorDay == "day1"

\* the export schemas tried: every field of a record and the capture date; or the
\* key, the career fields, the capture date and a field no record has
SchemaFull ==
    {"department_name_zh", "school_name_zh", "name_zh", "name_en", "title", "profile_url",
     "bs_school", "ms_school", "phd_school", "join_pku_year", "status", "notes", "crawl_date"}

SchemaShort ==
    {"department_name_zh", "school_name_zh", "name_zh", "name_en", "bs_school", "ms_school",
     "phd_school", "join_pku_year", "crawl_date", "email"}

\* {field: row.get(field, "") for field in headers}
Project(row, fields) == [f \in fields |-> IF f \in DOMAIN row THEN row[f] ELSE ""]

\* a loop over the records that leaves the capture date as it is
BackFillNever(mapped) == mapped

\* exporter.run, lines 33-34: a record without a capture date gets today's
BackFill(mapped) ==
    IF "crawl_date" \notin DOMAIN mapped \/ mapped.crawl_date = ""
    THEN ("crawl_date" :> Today) @@ mapped
    ELSE mapped

\* lines 31-35 for every record of the normalized store
MappedRecords(records, fields) ==
    [i \in 1..Len(records) |-> BackFill(Project(records[i], fields))]

\* lines 27-29 for every row of the prior export
MappedExisting(prior_rows, fields) ==
    [i \in 1..Len(prior_rows) |-> Project(prior_rows[i], fields)]

\* utils.write_csv, line 38: a row is written with the fields of the schema
WrittenRows(rows, fields) == [i \in 1..Len(rows) |-> Project(rows[i], fields)]

\* exporter.run, lines 24-39: the rows of the prior export, then the normalized
\* records, each projected on the schema, merged on the stripped key and written
MergeExport(prior_rows, records, fields) ==
    WrittenRows(DictValues(MappedExisting(read_csv_rows(prior_rows), fields)
                               \o MappedRecords(records, fields),
                           export_row_key),
                fields)

\* the normalized stores the export is run on: what the loop of phase 3 computes
\* for the rows of an enriched store, the capability answering in one way
NormalizedFiles ==
    {[i \in 1..Len(rows) |->
         NormalizeRow(rows[i], TRUE, [f \in Range(SchoolFields) |-> answer]).normalized] :
        rows \in EnrichedFiles, answer \in NormAnswers}

\* the first dated records of the store carry the capture date of an earlier day
DatedFirst(records, dated) ==
    [i \in 1..Len(records) |->
        IF i <= dated THEN ("crawl_date" :> PriorDay) @@ records[i] ELSE records[i]]

\* a row an earlier export wrote, on an earlier day, for a record that is no
\* longer in the normalized store ("Wang Wu")
PriorRow(fields) ==
    Project([department_name_zh |-> Dept, school_name_zh |-> School, name_zh |-> <<>>,
             name_en |-> <<87, 97, 110, 103, 32, 87, 117>>, title |-> "",
             profile_url |-> <<>>, bs_school |-> <<80, 75, 85>>, ms_school |-> <<>>,
             phd_school |-> <<>>, join_pku_year |-> <<>>, status |-> "incomplete",
             notes |-> <<>>, crawl_date |-> PriorDay], fields)

InitExport ==
    /\ cmd = "export"
    /\ apiKey = FALSE
    /\ playwright = FALSE /\ seedCsv = <<>> /\ web = {}
    /\ headers \in {SchemaFull, SchemaShort}
    /\ seedIssues = <<>> /\ pagesDir = <<>> /\ listingStore = <<>> /\ candidateStore = <<>>
    /\ d_pc = "off" /\ DiscoverLocalsClear
    /\ c_pc = "off" /\ CrawlLocalsClear
    /\ j_pc = "off" /\ ChatLocalsClear
    /\ f_pc = "off" /\ FilterLocalsClear
    /\ p_pc = "off" /\ ParseLocalsClear
    /\ namesStore = <<>>
    /\ enrichedStore = <<>>
    /\ EnrichParked
    /\ \E records \in NormalizedFiles :
          normalizedStore \in {DatedFirst(records, dated) : dated \in 0..Len(records)}
    /\ reviewStore = <<>>
    /\ exportStore \in {<<>>, <<PriorRow(headers)>>}
    /\ n_pc = "off"
    /\ NormalizeLocalsClear
    /\ lastMerge = "none"

\* an export that also empties the store it reads
ExportEmptiesNormalized ==
    /\ cmd = "export"
    /\ n_runs < MaxRuns
    /\ n_runs' = n_runs + 1
    /\ exportStore' = MergeExport(exportStore, normalizedStore, headers)
    /\ normalizedStore' = <<>>
    /\ lastMerge' = IF Clash(read_csv_rows(exportStore), normalizedStore, export_row_key)
                    THEN "export" ELSE "none"
    /\ UNCHANGED <<notNormalize, reviewStore, n_pc, n_resume, n_existing,
                   n_existing_review, n_pending, n_new, n_review, n_row_key, n_calls,
                   n_answers>>

\* exporter.run
Export ==
    /\ cmd = "export"
    /\ n_runs < MaxRuns
    /\ n_runs' = n_runs + 1
    /\ exportStore' = MergeExport(exportStore, normalizedStore, headers)
    /\ lastMerge' = IF Clash(read_csv_rows(exportStore), normalizedStore, export_row_key)
                    THEN "export" ELSE "none"
    /\ UNCHANGED <<notNormalize, normalizedStore, reviewStore, n_pc, n_resume, n_existing,
                   n_existing_review, n_pending, n_new, n_review, n_row_key, n_calls,
                   n_answers>>

NextExport == Export

SpecExport == InitExport /\ [][NextExport]_vars

\* ------------------------------------------------------- the whole program

\* one sub-command of the command line, or a crawl function taken alone
\* -------------------------------------- a capability call on its own

\* how a session.post of chat_json can end: a usable answer; status 429 or 408; a
\* status of 500 or more; anything else that raises inside the try (transport
\* error, timeout, another error status, a body without choices)
PostOutcomes == {"ok", "rate_limited", "server_error", "error"}

\* a range that holds one attempt more than max_retries
InAttemptsOneMore(attempt, max_retries) == attempt <= max_retries + 1

\* attempt in range(1, self.max_retries + 1)
InAttempts(attempt, max_retries) == attempt <= max_retries

\* the waits, in tenths of a second: min(12, 2 * attempt) after a 429 or 408,
\* min(10, 1.5 * attempt) after an error
RateLimitWait(attempt) == Min({120, 20 * attempt})

ErrorWait(attempt) == Min({100, 15 * attempt})

notChat == <<inputVars, discoverStores, namesStore, enrichedStore, normStores, discoverLocals,
             crawlLocals, enrichLocals, normLocals, lastMerge, filterLocals, parseLocals>>

InitChat ==
    /\ cmd = "chat"
    /\ apiKey \in BOOLEAN
    /\ playwright = FALSE /\ seedCsv = <<>> /\ web = {} /\ headers = {}
    /\ seedIssues = <<>> /\ pagesDir = <<>> /\ listingStore = <<>> /\ candidateStore = <<>>
    /\ d_pc = "off" /\ DiscoverLocalsClear
    /\ c_pc = "off" /\ CrawlLocalsClear
    /\ namesStore = <<>>
    /\ enrichedStore = <<>>
    /\ EnrichParked
    /\ NormalizeParked
    /\ j_pc = "idle" /\ ChatLocalsClear
    /\ f_pc = "off" /\ FilterLocalsClear
    /\ p_pc = "off" /\ ParseLocalsClear

\* chat_json is called on a client built with max_retries (lines 52-73): without a
\* credential it raises at once, otherwise the loop is entered
ChatCall(max_retries) ==
    /\ cmd = "chat"
    /\ j_pc \in {"idle", "returned", "raised"}
    /\ j_calls < MaxCalls
    /\ j_calls' = j_calls + 1
    /\ j_max_retries' = max_retries
    /\ j_attempt' = 1
    /\ j_last_error' = "none"
    /\ j_wait' = 0
    /\ j_posts' = 0
    /\ j_outcome' = "none"
    /\ j_pc' = IF ~apiKey THEN "raised"
              ELSE IF InAttempts(1, max_retries) THEN "post" ELSE "raised"
    /\ UNCHANGED notChat

\* lines 74-106: one attempt.  A usable answer is returned at once; a 429 or 408
\* goes to sleep and leaves last_error as it was; anything that raised is kept in
\* last_error and goes to sleep
ChatAttempt ==
    /\ j_pc = "post"
    /\ j_posts' = j_posts + 1
    /\ \E outcome \in PostOutcomes :
          /\ j_outcome' = outcome
          /\ IF outcome = "ok"
             THEN j_pc' = "returned" /\ UNCHANGED <<j_wait, j_last_error>>
             ELSE IF outcome = "rate_limited"
             THEN /\ j_pc' = "sleep"
                  /\ j_wait' = RateLimitWait(j_attempt)
                  /\ UNCHANGED j_last_error
             ELSE /\ j_pc' = "sleep"
                  /\ j_wait' = ErrorWait(j_attempt)
                  /\ j_last_error' = outcome
    /\ UNCHANGED <<notChat, j_max_retries, j_attempt, j_calls>>

\* time.sleep returns: the loop goes to its next attempt, or is over and line 108
\* raises the terminal error
ChatWake ==
    /\ j_pc = "sleep"
    /\ j_wait' = 0
    /\ IF InAttempts(j_attempt + 1, j_max_retries)
       THEN j_pc' = "post" /\ j_attempt' = j_attempt + 1
       ELSE j_pc' = "raised" /\ UNCHANGED j_attempt
    /\ UNCHANGED <<notChat, j_max_retries, j_last_error, j_posts, j_outcome, j_calls>>

ChatStep == cmd = "chat" /\ (ChatAttempt \/ ChatWake)

NextChat ==
    \/ \E max_retries \in 1..MaxRetries : ChatCall(max_retries)
    \/ cmd = "chat" /\ ChatAttempt
    \/ cmd = "chat" /\ ChatWake

SpecChat == InitChat /\ [][NextChat]_vars

\* session.post has a timeout and time.sleep returns: a call in progress takes
\* its next step
SpecChatFair == SpecChat /\ WF_vars(ChatStep)

\* ------------------------------- the classification of a group on its own

\* tokens a candidate list can hold, in the order below: a name of two
\* ideographs (Zhang San), "Li Ming", "Li  Ming" (two spaces), "J. Smith", a stop
\* word of four ideographs, three ideographs that contain a stop word,
\* "the group", "A1 B2", "A B", "Home Page" (it holds a stop word)
Tokens ==
    { <<24352, 19977>>,
      <<76, 105, 32, 77, 105, 110, 103>>,
      <<76, 105, 32, 32, 77, 105, 110, 103>>,
      <<74, 46, 32, 83, 109, 105, 116, 104>>,
      <<25945, 24072, 38431, 20237>>,
      <<25945, 24072, 24352>>,
      <<116, 104, 101, 32, 103, 114, 111, 117, 112>>,
      <<65, 49, 32, 66, 50>>,
      <<65, 32, 66>>,
      <<72, 111, 109, 101, 32, 80, 97, 103, 101>> }

\* the candidate lists tried: up to MaxCandidates tokens, repeats allowed
CandidateLists == UNION {[1..n -> Tokens] : n \in 0..MaxCandidates}

notFilter == <<inputVars, discoverStores, namesStore, enrichedStore, normStores, discoverLocals,
               crawlLocals, enrichLocals, normLocals, lastMerge, chatLocals, parseLocals>>

InitNames ==
    /\ cmd = "names"
    /\ apiKey = FALSE
    /\ playwright = FALSE /\ seedCsv = <<>> /\ web = {} /\ headers = {}
    /\ seedIssues = <<>> /\ pagesDir = <<>> /\ listingStore = <<>> /\ candidateStore = <<>>
    /\ d_pc = "off" /\ DiscoverLocalsClear
    /\ c_pc = "off" /\ CrawlLocalsClear
    /\ namesStore = <<>>
    /\ enrichedStore = <<>>
    /\ EnrichParked
    /\ NormalizeParked
    /\ j_pc = "off" /\ ChatLocalsClear
    /\ f_pc = "call"
    /\ f_candidates \in CandidateLists
    /\ f_enabled \in BOOLEAN
    /\ f_answer = "nocall" /\ f_names = <<>> /\ f_rows = <<>>
    /\ p_pc = "off" /\ ParseLocalsClear

\* run(), lines 547-567, for one group: the candidates are filtered and a name row
\* is built of every name returned.  The capability is asked when the client is
\* enabled and a candidate passes the heuristic (lines 338-358).
FilterNames ==
    /\ cmd = "names"
    /\ f_pc = "call"
    /\ \E kind \in AnswerKinds :
          /\ f_names' = _filter_names_with_deepseek(f_candidates, f_enabled, kind)
          /\ f_rows' = ProfessorRowsOf(<<Dept, School>>,
                                       _filter_names_with_deepseek(f_candidates, f_enabled, kind))
          /\ f_answer' = IF f_enabled /\ SelectSeq(f_candidates, _looks_like_name) # <<>>
                         THEN kind ELSE "nocall"
    /\ f_pc' = "returned"
    /\ UNCHANGED <<notFilter, f_candidates, f_enabled>>

NextNames == FilterNames

SpecNames == InitNames /\ [][NextNames]_vars

\* ------------------------------------------------ utils.py: the JSON parsers

\* the longest text of the capability the parsers are applied to
MaxText == 4

\* a text of the capability as a sequence of tokens: the braces and brackets, a
\* whole member of an object ("m", as in "a": 1), a key with its colon ("k", to
\* be followed by a value), a string item ("s"), an empty string item ("e") and a
\* word of prose ("w").  Blanks and commas are not tokens.
JsonTokens == {"{", "}", "[", "]", "m", "k", "s", "e", "w"}

Texts == UNION {[1..n -> JsonTokens] : n \in 0..MaxText}

RECURSIVE IsJsonValue(_), IsJsonValues(_)

\* the body of an object: nothing, one whole member, or a key and its value
IsObjBody(b) ==
    \/ b = <<>>
    \/ b = <<"m">>
    \/ Len(b) >= 2 /\ b[1] = "k" /\ IsJsonValue(Tail(b))

IsJsonObj(t) ==
    /\ Len(t) >= 2 /\ t[1] = "{" /\ t[Len(t)] = "}"
    /\ IsObjBody(SubSeq(t, 2, Len(t) - 1))

IsJsonList(t) ==
    /\ Len(t) >= 2 /\ t[1] = "[" /\ t[Len(t)] = "]"
    /\ IsJsonValues(SubSeq(t, 2, Len(t) - 1))

\* json.loads(t) does not raise JSONDecodeError
IsJsonValue(t) == t \in {<<"s">>, <<"e">>} \/ IsJsonObj(t) \/ IsJsonList(t)

IsJsonValues(b) ==
    \/ b = <<>>
    \/ \E n \in 1..Len(b) : IsJsonValue(SubSeq(b, 1, n)) /\ IsJsonValues(SubSeq(b, n + 1, Len(b)))

\* the items of the body of a list, in order
RECURSIVE ListItems(_)
ItemsFrom(b, n) == <<SubSeq(b, 1, n)>> \o ListItems(SubSeq(b, n + 1, Len(b)))

ListItems(b) ==
    IF b = <<>> THEN <<>>
    ELSE ItemsFrom(b, Min({n \in 1..Len(b) : IsJsonValue(SubSeq(b, 1, n))}))

\* {}: the empty object
EmptyObj == <<"{", "}">>

\* re.search(r"\{[\s\S]*\}", text).group(0): from the first opening mark to the
\* last closing mark after it
GreedySpan(text, opens, closes) ==
    IF opens = {} \/ closes = {} \/ Max(closes) < Min(opens)
    THEN <<>>
    ELSE SubSeq(text, Min(opens), Max(closes))

SearchSpan(text, open, close) ==
    GreedySpan(text, {i \in 1..Len(text) : text[i] = open},
               {i \in 1..Len(text) : text[i] = close})

\* value if isinstance(value, dict) else {}
DictOrEmpty(t) == IF IsJsonObj(t) THEN t ELSE EmptyObj

\* parse_json_obj, lines 88-95
ObjFromSpan(span) == IF span # <<>> /\ IsJsonValue(span) THEN DictOrEmpty(span) ELSE EmptyObj

parse_json_obj(text) ==
    IF text = <<>> THEN EmptyObj
    ELSE IF IsJsonValue(text) THEN DictOrEmpty(text)
    ELSE ObjFromSpan(SearchSpan(text, "{", "}"))

\* [str(item).strip() for item in value if str(item).strip()]
ItemStrings(t) == SelectSeq(ListItems(SubSeq(t, 2, Len(t) - 1)), LAMBDA item : item # <<"e">>)

\* parse_json_list, lines 109-118
ListFromSpan(span) == IF span # <<>> /\ IsJsonList(span) THEN ItemStrings(span) ELSE <<>>

parse_json_list(text) ==
    IF text = <<>> THEN <<>>
    ELSE IF IsJsonList(text) THEN ItemStrings(text)
    ELSE ListFromSpan(SearchSpan(text, "[", "]"))

notParse == <<inputVars, discoverStores, namesStore, enrichedStore, normStores, discoverLocals,
              crawlLocals, enrichLocals, normLocals, lastMerge, chatLocals, filterLocals>>

\* a parser taken alone: any text of the capability
InitParse ==
    /\ cmd = "parse"
    /\ apiKey = TRUE
    /\ playwright = FALSE /\ seedCsv = <<>> /\ web = {} /\ headers = {}
    /\ seedIssues = <<>> /\ pagesDir = <<>> /\ listingStore = <<>> /\ candidateStore = <<>>
    /\ d_pc = "off" /\ DiscoverLocalsClear
    /\ c_pc = "off" /\ CrawlLocalsClear
    /\ namesStore = <<>>
    /\ enrichedStore = <<>>
    /\ EnrichParked
    /\ NormalizeParked
    /\ j_pc = "off" /\ ChatLocalsClear
    /\ f_pc = "off" /\ FilterLocalsClear
    /\ p_pc = "ready"
    /\ p_text \in Texts
    /\ p_fn = "none"
    /\ p_out = <<>>

\* payload = parse_json_obj(text)
ParseObj ==
    /\ cmd = "parse"
    /\ p_pc = "ready"
    /\ p_pc' = "returned"
    /\ p_fn' = "obj"
    /\ p_out' = parse_json_obj(p_text)
    /\ UNCHANGED <<notParse, p_text>>

\* names = parse_json_list(text)
ParseList ==
    /\ cmd = "parse"
    /\ p_pc = "ready"
    /\ p_pc' = "returned"
    /\ p_fn' = "list"
    /\ p_out' = parse_json_list(p_text)
    /\ UNCHANGED <<notParse, p_text>>

NextParse == ParseObj \/ ParseList

SpecParse == InitParse /\ [][NextParse]_vars

Init == InitDiscover \/ InitCrawl \/ InitEnrich \/ InitNormalize \/ InitExport

Next == NextDiscover \/ NextCrawl \/ NextEnrich \/ NextNormalize \/ NextExport

Spec == Init /\ [][Next]_vars

\* ------------------------------------------------------------ properties

\* no two rows of a store have the same key
Unique(rows, K(_)) ==
    \A i, j \in 1..Len(rows) : K(rows[i]) = K(rows[j]) => i = j

\* C1: a resumed run does not process again an upstream record whose result an
\* earlier run persisted: discovery fetches no page of a seed that has listing
\* rows, enrichment makes no fetch and no capability call for a name row already
\* enriched, normalization makes no capability call for a row already normalized.
C1_ResumeSkipsProcessed ==
    /\ (d_pc = "seeds" /\ d_resume) => d_fetched \cap ProcessedSeedIndices(d_existing) = {}
    /\ (e_pc = "run" /\ e_resume) =>
           \A i \in 1..Len(e_src) : _row_key(e_src[i].row) \in e_done => e_src[i].calls = 0
    /\ (n_pc = "run" /\ n_resume) =>
           \A i \in 1..Len(n_calls) :
               (\E j \in 1..Len(n_existing) : _row_key(n_existing[j]) = _row_key(n_pending[i]))
                   => n_calls[i] = 0

\* C2: when a run is interrupted (killed, or ended by an error) after it has
\* finished some of its pending items, the results of those items are in the
\* phase's output store.
C2_InterruptKeepsFinished ==
    /\ d_pc \in {"killed", "aborted", "strict_failed"} =>
           \A i \in 1..Len(d_new) : d_new[i] \in Range(listingStore)
    /\ e_pc \in {"killed", "aborted"} =>
           \A i \in 1..Len(e_new) : e_new[i] \in Range(enrichedStore)
    /\ n_pc \in {"killed", "aborted"} =>
           \A i \in 1..Len(n_new) : n_new[i] \in Range(normalizedStore)

\* the key-to-record mapping of an enriched store
EnrichedMap(rows) == {<<_row_key(rows[i]), rows[i]>> : i \in 1..Len(rows)}

\* C3 (stated for the enrichment phase): when every name row has been enriched and
\* persisted by finished runs, a further resumed run leaves the enriched store
\* with the same key-to-record mapping, whatever the capability answers.
C3_SecondRunChangesNothing ==
    [][(/\ e_pc = "run" /\ e_pc' = "idle" /\ e_resume
        /\ \A i \in 1..Len(namesStore) : _row_key(namesStore[i]) \in e_done)
         => EnrichedMap(enrichedStore') = EnrichedMap(enrichedStore)]_vars

\* C4: a normalization run with at least one pending row, once its loop is over,
\* finishes without error and writes its stores; the normalized store then holds
\* exactly one record for every key of the persisted and of the pending rows.
C4_NormalizeWritesPending ==
    [][(/\ n_pc = "run" /\ n_pending # <<>> /\ Len(n_new) = Len(n_pending)
        /\ n_pc' \notin {"run", "killed"})
         => /\ n_pc' = "idle"
            /\ Unique(normalizedStore', _row_key)
            /\ {_row_key(normalizedStore'[i]) : i \in 1..Len(normalizedStore')}
                 = {_row_key(n_existing[i]) : i \in 1..Len(n_existing)}
                   \cup {_row_key(n_pending[i]) : i \in 1..Len(n_pending)}]_vars

\* C5: the record enrichment produces for a name row has the natural key
\* (department, institution, zh-name, en-name) of that row.
C5_EnrichKeepsKey ==
    \A i \in 1..Len(e_new) : _row_key(e_new[i]) = _row_key(e_src[i].row)

\* C6: every store holds at most one record per natural key, also after a merge
\* of a new record whose key an existing record has.
C6_OneRecordPerKey ==
    /\ Unique(listingStore, ListingKey)
    /\ Unique(candidateStore, CandidateKey)
    /\ Unique(namesStore, NameKey)
    /\ Unique(enrichedStore, _row_key)
    /\ Unique(normalizedStore, _row_key)
    /\ Unique(reviewStore, ReviewKey)
    /\ Unique(exportStore, export_row_key)

\* C6 witness: the enriched store was just written by a merge in which a new
\* record had the key of an existing one
C6_MergedOnExistingKey ==
    /\ lastMerge = "enriched"
    /\ e_pc = "idle"
    /\ enrichedStore # <<>>

\* C7: an error raised while enriching one item does not abort the run, for any
\* worker count: the item yields a default incomplete record with a non-empty
\* note and the other items still yield theirs.
C7_ErrorDoesNotAbort ==
    /\ e_pc # "aborted"
    /\ \A i \in 1..Len(e_src) :
           e_src[i].raised =>
               /\ e_new[i].status = "incomplete"
               /\ e_new[i].notes # <<>>
               /\ [e_new[i] EXCEPT !.notes = <<>>] = _default_enriched(e_src[i].row)

\* C8: a transport failure while crawling one seed does not end the discovery
\* run: the run goes on with the remaining seeds and writes its stores.
C8_TransportFailureKeepsRun ==
    [][(d_pc = "seeds" /\ c_pc = "raised" /\ c_strategy = "rq")
         => d_pc' \in {"seeds", "killed"}]_vars

\* C9: when strict mode is requested and no credential is configured, the run
\* fails before any work: no page was fetched and no file written.
C9_StrictFailsFirst ==
    d_pc = "strict_failed" => d_fetched = {} /\ d_written = {}

\* the signature of the i-th page a crawl in progress has captured
SignatureOfRow(i) == _extract_signature(pagesDir[c_rows[i].html_path])

\* C10 as stated: in the browser crawl, a page whose signature equals that of the
\* page before it, for the second page in a row, is the last page captured.
C10_StopsOnSecondRepeat ==
    c_strategy = "pw" =>
        \A k \in 3..Len(c_rows) :
            (SignatureOfRow(k) = SignatureOfRow(k - 1)
             /\ SignatureOfRow(k - 1) = SignatureOfRow(k - 2))
                => k = Len(c_rows) /\ c_pc = "returned"

\* C10 amended: in the browser crawl, a page whose non-empty signature equals that
\* of the page before it, for the second page in a row, is the last page captured;
\* pages without any name-like token never count as repeats.
C10_StopsOnSecondNonEmptyRepeat ==
    c_strategy = "pw" =>
        \A k \in 3..Len(c_rows) :
            (/\ SignatureOfRow(k) # <<>>
             /\ SignatureOfRow(k) = SignatureOfRow(k - 1)
             /\ SignatureOfRow(k - 1) = SignatureOfRow(k - 2))
                => k = Len(c_rows) /\ c_pc = "returned"

\* C10 witness: a browser crawl with budget left returned at its third page on
\* the second repeat of a non-empty signature
C10_StoppedAtThirdPage ==
    /\ c_strategy = "pw" /\ c_pc = "returned"
    /\ Len(c_rows) = 3
    /\ c_seed.max_pages_per_seed > 3
    /\ c_repeat_count >= 2
    /\ SignatureOfRow(3) # <<>>
    /\ SignatureOfRow(3) = SignatureOfRow(2) /\ SignatureOfRow(2) = SignatureOfRow(1)

\* a page with a next-page link, as _find_next_url sees it
NextLinked(page) == _find_next_url(SeedA.faculty_list_url, page) # <<>>

\* a browser crawl whose clicks went as the next-page links say: it went on from
\* a page only when the page had a next-page link, and it stopped on the second
\* repeat, at the page budget, or at a page without a next-page link
ClicksFollowLinks(pages, repeat_count, max_pages_per_seed) ==
    /\ \A k \in 1..(Len(pages) - 1) : NextLinked(pages[k])
    /\ \/ repeat_count >= 2
       \/ Len(pages) = max_pages_per_seed
       \/ ~NextLinked(pages[Len(pages)])

\* listing rows without the address the page was read from
RowsModuloUrl(rows) == [k \in 1..Len(rows) |-> [rows[k] EXCEPT !.listing_page_url = <<>>]]

\* C11: the two strategies, called on the same seed with the same page budget and
\* served the same pages with the same next-page links, stop after the same page
\* and produce the same listing rows.
C11_StrategiesAgree ==
    (/\ c_pc = "returned"
     /\ c_prev.strategy \notin {"none", c_strategy}
     /\ c_prev.max_pages_per_seed = c_seed.max_pages_per_seed
     /\ IF c_strategy = "pw"
        THEN ClicksFollowLinks(SavedPages(c_rows), c_repeat_count, c_seed.max_pages_per_seed)
        ELSE ClicksFollowLinks(c_prev.pages, c_prev.repeat_count, c_prev.max_pages_per_seed))
        => /\ Len(c_rows) = Len(c_prev.rows)
           /\ RowsModuloUrl(c_rows) = RowsModuloUrl(c_prev.rows)

\* C12: a crawl terminates and captures at most max_pages_per_seed pages, in both
\* strategies, whatever the pages and their next links are.
C12_CrawlEndsWithinBudget ==
    /\ [](Len(c_rows) <= c_seed.max_pages_per_seed)
    /\ (c_pc \in {"open", "pw", "rq"}) ~> (c_pc \in {"returned", "raised"})

\* C12 witness: a browser crawl of content-identical pages, a next link on every
\* one, has returned at the largest page budget
C12_IdenticalPagesToBudget ==
    /\ c_pc = "returned" /\ c_strategy = "pw"
    /\ c_seed.max_pages_per_seed = MaxPages
    /\ Len(c_rows) = MaxPages
    /\ \A k \in 1..Len(c_rows) :
           SavedPages(c_rows)[k] = SavedPages(c_rows)[1] /\ NextLinked(SavedPages(c_rows)[k])

\* the candidates of a group that pass the deterministic filter: its one batch
BatchOfGroup(group) ==
    {Strip(candidateStore[i].name_candidate) :
         i \in {j \in 1..Len(candidateStore) :
                    /\ GroupKey(candidateStore[j]) = group
                    /\ _looks_like_name(Strip(candidateStore[j].name_candidate))}}

\* the names the names store holds for a group
NamesOfGroup(group) ==
    UNION {{namesStore[i].name_zh, namesStore[i].name_en} :
               i \in {j \in 1..Len(namesStore) : GroupKey(namesStore[j]) = group}}

\* C13: with the capability enabled, every candidate of a batch whose call raised
\* or whose response was not a parsable list is among the accepted names.
C13_BatchFailsOpen ==
    (d_pc = "idle" /\ apiKey)
        => \A g \in 1..Len(d_kinds) :
               d_kinds[g] \in {"raise", "garbled"}
                   => BatchOfGroup(SchoolGroups(candidateStore)[g])
                          \subseteq NamesOfGroup(SchoolGroups(candidateStore)[g])

\* the results harvested for the pending item at position i
HarvestsOf(i) == {k \in 1..Len(e_src) : e_src[k].row = e_pending[i]}

\* C14: with more than one worker, when the run writes the store every pending
\* item has been handed out as one task, no task is still running, and every
\* item has exactly one harvested result: as many new records as pending items.
C14_EveryTaskHarvestedOnce ==
    [][(e_pc = "run" /\ e_workers > 1 /\ e_pc' = "idle")
          => /\ e_queue = Len(e_pending) + 1
             /\ e_running = {}
             /\ Len(e_new) = Len(e_pending)
             /\ Len(e_src) = Len(e_new)
             /\ \A i \in 1..Len(e_pending) : Cardinality(HarvestsOf(i)) = 1]_vars

\* C14 witness: a pool run over two pending items has harvested both, the second
\* item's task first, one task having raised and one having returned a record
C14_AllHarvestedOutOfOrder ==
    /\ e_pc = "run" /\ e_workers > 1
    /\ Len(e_pending) = 2 /\ Len(e_new) = 2 /\ e_running = {}
    /\ e_src[1].row = e_pending[2]
    /\ e_src[1].raised /\ ~e_src[2].raised

\* new_rows as the harvest loop would have built it had the tasks completed in the
\* order p
HarvestedInOrder(p) == [k \in 1..Len(e_new) |-> e_new[p[k]]]

\* C15: when a pool run has harvested every task, the key-to-record mapping it is
\* about to write is the same for every order in which the tasks could have
\* completed.
C15_OrderIndependent ==
    (e_pc = "run" /\ e_workers > 1 /\ Len(e_new) = Len(e_pending))
        => \A p \in Permutations(1..Len(e_new)) :
               EnrichedMap(MergeEnriched(e_existing, HarvestedInOrder(p)))
                   = EnrichedMap(MergeEnriched(e_existing, e_new))

\* bachelor institution, doctoral institution and join-year are all non-empty
AllThreePresent(rec) ==
    rec.bs_school # <<>> /\ rec.phd_school # <<>> /\ rec.join_pku_year # <<>>

\* C16: every record of the enriched store has status "complete" if its bachelor
\* institution, doctoral institution and join-year are all non-empty, and
\* "incomplete" otherwise.
C16_StatusIsRecomputed ==
    \A i \in 1..Len(enrichedStore) :
        enrichedStore[i].status = IF AllThreePresent(enrichedStore[i])
                                  THEN "complete" ELSE "incomplete"

\* C16 witness: after a second run the store holds a complete record and a record
\* that has a bachelor institution and is incomplete
C16_CompleteAndIncompleteStored ==
    /\ e_pc = "idle" /\ e_runs = 2
    /\ \E i, j \in 1..Len(enrichedStore) :
          /\ enrichedStore[i].status = "complete"
          /\ enrichedStore[j].status = "incomplete" /\ enrichedStore[j].bs_school # <<>>

\* the review rows the run in progress has appended for field f of its k-th row
ReviewItemsOf(k, f) ==
    {m \in 1..Len(n_review) :
         /\ n_review[m].row_key = _row_key(n_pending[k])
         /\ n_review[m].field = f
         /\ n_review[m].original_value = n_pending[k][f]}

\* the code and the confidence the capability proposed for field f of the k-th
\* row: none and 0 when the call failed
ProposedCode(k, f) ==
    IF n_answers[k][f].ok THEN Upper(Strip(n_answers[k][f].abbr)) ELSE <<>>

ProposedConfidence(k, f) ==
    IF n_answers[k][f].ok THEN n_answers[k][f].confidence ELSE 0

C18_EachTripleRecordedOnce ==
    /\ Unique(reviewStore, ReviewKey)
    /\ n_pc \in {"idle", "aborted"}
           => \A m \in 1..Len(n_review) :
                  Cardinality({j \in 1..Len(reviewStore) :
                                   ReviewKey(reviewStore[j]) = ReviewKey(n_review[m])}) = 1

\* C19: a capability call makes at most max_retries attempts; an attempt that
\* failed or was rate-limited is followed by a wait of at most 12 seconds and then
\* by the next attempt or, after the last attempt, by the terminal error; a
\* successful attempt returns at once; every call starts with fresh locals; the
\* call always ends.
C19_BoundedRetries ==
    /\ [](j_posts <= j_max_retries)
    /\ [](j_pc = "sleep" => (j_outcome # "ok" /\ j_wait > 0 /\ j_wait <= 120))
    /\ [](j_outcome = "ok" => j_pc = "returned")
    /\ []((j_pc = "raised" /\ apiKey) => (j_posts = j_max_retries /\ j_outcome # "ok"))
    /\ []((j_pc = "post" /\ j_posts = 0) => (j_attempt = 1 /\ j_last_error = "none"))
    /\ [][(j_pc = "post" /\ j_outcome' # "ok") => j_pc' = "sleep"]_vars
    /\ [][(j_pc = "sleep" /\ j_posts < j_max_retries)
             => (j_pc' = "post" /\ j_attempt' = j_attempt + 1)]_vars
    /\ (j_pc \in {"post", "sleep"}) ~> (j_pc \in {"returned", "raised"})

\* C19 witness: the second call, with the default of 4 attempts, has ended with the
\* terminal error after 4 attempts, the last of them rate-limited
C19_FourAttemptsThenError ==
    /\ j_pc = "raised" /\ apiKey /\ j_calls = 2
    /\ j_max_retries = 4 /\ j_posts = 4 /\ j_attempt = 4
    /\ j_outcome = "rate_limited" /\ j_last_error = "server_error"

\* for every new row whose key an existing row has, the store holds a row with
\* that key, and every row it holds with that key is one of the new rows
NewWins(existing_rows, new_rows, store, K(_)) ==
    \A i \in 1..Len(new_rows) :
        (\E j \in 1..Len(existing_rows) : K(existing_rows[j]) = K(new_rows[i]))
            => /\ \E m \in 1..Len(store) : K(store[m]) = K(new_rows[i])
               /\ \A m \in 1..Len(store) :
                      K(store[m]) = K(new_rows[i])
                          => \E n \in 1..Len(new_rows) : store[m] = new_rows[n]

\* C20: every write of the enriched store, the normalized store, the listing-page
\* store, the review store and the export leaves, for a key that a new record
\* shares with a record read from the store, the new record in the store and not
\* the old one.  Such a key occurs in the writes of the enriched store and of the
\* export; no behaviour of the model produces one in the other three writes.
C20_NewRecordWins ==
    [][/\ (e_pc = "run" /\ e_pc' = "idle")
             => NewWins(e_existing, e_new, enrichedStore', _row_key)
       /\ (n_pc = "run" /\ n_pc' = "idle")
             => /\ NewWins(n_existing, n_new, normalizedStore', _row_key)
                /\ NewWins(n_existing_review, n_review, reviewStore', ReviewKey)
       /\ (d_pc = "seeds" /\ d_pc' = "persisted")
             => NewWins(d_existing, d_new, listingStore', ListingKey)
       /\ (cmd = "export" /\ n_runs' # n_runs)
             => NewWins(read_csv_rows(exportStore), MappedRecords(normalizedStore, headers),
                        exportStore', export_row_key)]_vars

\* C20 witness: a second export has merged the normalized records over the rows
\* of the first export, key for key, and the export holds the normalized records
C20_ExportMergedOnExistingKey ==
    /\ lastMerge = "export"
    /\ n_runs = 2
    /\ Len(exportStore) = 2
    /\ exportStore = MappedRecords(normalizedStore, headers)

\* rows is what limit leaves of upstream: upstream[:limit] for some limit
IsWindowOf(rows, upstream) ==
    Len(rows) <= Len(upstream) /\ rows = SubSeq(upstream, 1, Len(rows))

\* C21: a run in non-resume mode takes every upstream record within the limit as
\* pending, and when it ends by itself the store of its phase holds exactly the
\* records the run produced.
C21_NonResumeStartsAfresh ==
    [][/\ (e_pc = "run" /\ ~e_resume /\ e_pc' \in {"idle", "aborted"})
             => /\ IsWindowOf(e_pending, namesStore)
                /\ Len(e_new) = Len(e_pending)
                /\ Range(enrichedStore') = Range(e_new)
       /\ (n_pc = "run" /\ ~n_resume /\ n_pc' \in {"idle", "aborted"})
             => /\ IsWindowOf(n_pending, enrichedStore)
                /\ Len(n_new) = Len(n_pending)
                /\ Range(normalizedStore') = Range(n_new)
       /\ (d_pc = "seeds" /\ ~d_resume /\ d_pc' \in {"persisted", "aborted"})
             => Range(listingStore') = Range(d_new)]_vars

\* a seed row that has to be diverted: a required field is missing, or the
\* listing address starts with neither http:// nor https://
Diverted(row) ==
    \/ row.department_name_zh = ""
    \/ row.school_name_zh = ""
    \/ row.faculty_list_url = <<>>
    \/ Head(row.faculty_list_url) \notin {"http", "https"}

\* the rows of the seed file that are not diverted, in the order of the file
CrawlableSeeds == SelectSeq(seedCsv, LAMBDA row : ~Diverted(row))

\* the issues log holds the diverted rows of the seed file, each once under its
\* index in the file, and no other row
IssuesAreTheDiverted ==
    /\ \A i \in 1..Len(seedCsv) :
          Diverted(seedCsv[i])
             <=> \E k \in 1..Len(seedIssues) :
                    seedIssues[k].seed_row_index = i - 1 /\ seedIssues[k].row = seedCsv[i]
    /\ \A k, l \in 1..Len(seedIssues) :
          seedIssues[k].seed_row_index = seedIssues[l].seed_row_index => k = l
    /\ \A k \in 1..Len(seedIssues) : seedIssues[k].seed_row_index \in 0..(Len(seedCsv) - 1)

\* the seed a crawl of the run works on is a row of the file that is not diverted
CrawledSeedIsCrawlable ==
    \E i \in 1..Len(seedCsv) :
       /\ ~Diverted(seedCsv[i])
       /\ c_seed.start_url = seedCsv[i].faculty_list_url
       /\ c_seed.department_name_zh = seedCsv[i].department_name_zh
       /\ c_seed.school_name_zh = seedCsv[i].school_name_zh

\* the seeds of the run are the window of the rows not diverted (none when the
\* window starts behind the last of them), and each of them was fetched by this
\* run unless resume found it processed by an earlier run
WindowWasCrawled ==
    /\ d_valid # <<>> => d_seed_start + Len(d_valid) <= Len(CrawlableSeeds)
    /\ d_valid = SubSeq(CrawlableSeeds, d_seed_start + 1, d_seed_start + Len(d_valid))
    /\ \A v \in d_seed_start..(d_seed_start + Len(d_valid) - 1) :
          IF d_resume /\ v \in ProcessedSeedIndices(d_existing)
          THEN v \notin d_fetched
          ELSE v \in d_fetched
    /\ d_fetched \subseteq d_seed_start..(d_seed_start + Len(d_valid) - 1)

\* C22: every row of the seed file is either diverted to the issues log (a
\* required field missing, or an address that starts with neither http:// nor
\* https://) and never fetched, or it is kept; a run crawls only kept rows, and
\* when its loop over the seeds ends it has crawled every kept row of its window
\* that resume did not skip.
C22_SeedsDivertedOrCrawled ==
    /\ [](cmd = "phase1" /\ d_pc \in {"seeds", "persisted"} => IssuesAreTheDiverted)
    /\ [](cmd = "phase1" /\ c_pc # "off" => CrawledSeedIsCrawlable)
    /\ [][(d_pc = "seeds" /\ d_pc' = "persisted") => WindowWasCrawled]_vars

\* a run over a file with a diverted row and a kept one has logged the one and
\* fetched the other
C22_OneDivertedOneCrawled ==
    /\ cmd = "phase1" /\ d_pc = "persisted"
    /\ Len(seedIssues) = 1
    /\ Len(d_valid) = 1
    /\ d_fetched # {}
    /\ \E i \in 1..Len(seedCsv) : Diverted(seedCsv[i])

\* the candidates of the call that pass the name heuristic
HeuristicSubset == {f_candidates[i] : i \in {j \in 1..Len(f_candidates) :
                                                 _looks_like_name(f_candidates[j])}}

\* C23: with the capability disabled the classification returns exactly the
\* candidates that pass the deterministic heuristic, each once, and the capability
\* is not asked.
C23_DisabledIsHeuristicSubset ==
    (cmd = "names" /\ f_pc = "returned" /\ ~f_enabled)
        => /\ Range(f_names) = HeuristicSubset
           /\ Len(f_names) = Cardinality(HeuristicSubset)
           /\ f_answer = "nocall"

\* a disabled classification was handed a name and a token that is none, and
\* returned the name alone
C23_DisabledDroppedNonName ==
    /\ cmd = "names" /\ f_pc = "returned" /\ ~f_enabled
    /\ Len(f_candidates) = 2 /\ Len(f_names) = 1
    /\ f_candidates[1] # f_candidates[2]

\* the aliases of the table that text equals, and those it contains
AliasesEqual(text) == {i \in 1..Len(ALIAS_TO_STD) : ALIAS_TO_STD[i][1] = text}

AliasesWithin(text) == {i \in 1..Len(ALIAS_TO_STD) : Contains(text, ALIAS_TO_STD[i][1])}

\* code is the code of the alias text equals or, when it equals none, of the
\* first alias of the table it contains
IsAliasCodeOf(code, text) ==
    IF AliasesEqual(text) # {}
    THEN \A i \in AliasesEqual(text) : code = ALIAS_TO_STD[i][2]
    ELSE \E i \in AliasesWithin(text) :
            /\ code = ALIAS_TO_STD[i][2]
            /\ \A j \in AliasesWithin(text) : i <= j

\* the review rows the run in progress holds for field f of its k-th row
ReviewsOfField(k, f) ==
    {m \in 1..Len(n_review) :
         n_review[m].row_key = _row_key(n_pending[k]) /\ n_review[m].field = f}

\* C24: an institution value that equals an alias of the table, or contains one,
\* becomes the code of that alias (of the first one in table order when it only
\* contains aliases); the capability is not asked about it and no review row is
\* appended for it.
C24_AliasResolvesWithoutCall ==
    n_pc = "run" =>
        \A k \in 1..Len(n_new), f \in Range(SchoolFields) :
            AliasesWithin(Strip(n_pending[k][f])) # {}
                => /\ IsAliasCodeOf(n_new[k][f], Strip(n_pending[k][f]))
                   /\ n_answers[k][f] = NoAnswer
                   /\ ReviewsOfField(k, f) = {}

\* a run with the capability enabled has normalized a row whose bachelor
\* institution is the alias of seven ideographs for Peking University's physics
\* department and one whose bachelor institution only contains an alias of the
\* Academy of Sciences: they became "PKU" and "CAS"
C24_EqualAndContainedResolved ==
    /\ n_pc = "run" /\ apiKey
    /\ \E k, l \in 1..Len(n_new) :
          /\ n_pending[k].bs_school = <<21271, 20140, 22823, 23398, 29289, 29702, 31995>>
          /\ n_new[k].bs_school = <<80, 75, 85>>
          /\ AliasesEqual(n_pending[l].bs_school) = {}
          /\ AliasesWithin(n_pending[l].bs_school) # {}
          /\ n_new[l].bs_school = <<67, 65, 83>>

\* exactly one of the two name slots of the row is filled
OneNameSlot(row) == (row.name_zh = <<>>) # (row.name_en = <<>>)

\* C25: every name row the classification of a group creates has exactly one of
\* name_zh and name_en non-empty, whether the name was accepted by the heuristic
\* alone, returned by the capability, or taken from the batch after a failed call.
C25_ExactlyOneNameSlot ==
    (cmd = "names" /\ f_pc = "returned")
        => /\ Len(f_rows) = Len(f_names)
           /\ \A i \in 1..Len(f_rows) :
                 /\ OneNameSlot(f_rows[i])
                 /\ f_names[i] \in {f_rows[i].name_zh, f_rows[i].name_en}

\* the capability failed on a batch of an ideograph name and a Latin name, and a
\* row was created for each
C25_FailOpenRowsOfBothScripts ==
    /\ cmd = "names" /\ f_pc = "returned" /\ f_enabled /\ f_answer = "raise"
    /\ \E i, j \in 1..Len(f_rows) : f_rows[i].name_zh # <<>> /\ f_rows[j].name_en # <<>>

\* C26: no step of a discovery run in resume mode removes or changes a name row
\* of the store, and a row the step adds has a key no row of the store had.
C26_ResumeKeepsNames ==
    [][(cmd = "phase1" /\ d_pc \in {"seeds", "persisted"} /\ d_resume)
          => /\ Range(namesStore) \subseteq Range(namesStore')
             /\ \A m \in 1..Len(namesStore') :
                   namesStore'[m] \notin Range(namesStore)
                      => \A j \in 1..Len(namesStore) :
                            NameKey(namesStore'[m]) # NameKey(namesStore[j])]_vars

\* the second run of a behaviour has ended: it was in resume mode, it produced a
\* name row with the key of a row of the store, and the store holds the names of
\* two groups
C26_ResumedOverExistingNames ==
    /\ cmd = "phase1" /\ d_pc = "idle" /\ d_runs = 2
    /\ lastMerge = "names"
    /\ \E i, j \in 1..Len(namesStore) : GroupKey(namesStore[i]) # GroupKey(namesStore[j])

\* the Script-A rule: 2 to 4 ideographs that neither are nor contain a stop word
ScriptARule(t) ==
    /\ Len(t) \in 2..4
    /\ \A i \in 1..Len(t) : t[i] \in 19968..40959
    /\ \A stop \in STOPWORDS : t # stop /\ ~Contains(t, stop)

\* a word that is fully upper-case, or capitalized and then lower-case
WordIsCased(word) ==
    \/ /\ \E i \in 1..Len(word) : word[i] \in 65..90
       /\ \A i \in 1..Len(word) : word[i] \notin 97..122
    \/ /\ word[1] \in 65..90
       /\ \E i \in 2..Len(word) : word[i] \in 97..122
       /\ \A i \in 2..Len(word) : word[i] \notin 65..90

\* a word that starts with a letter and goes on with letters or marks
WordIsSpelled(word, marks) ==
    /\ word # <<>>
    /\ word[1] \in (65..90) \cup (97..122)
    /\ \A i \in 2..Len(word) : word[i] \in (65..90) \cup (97..122) \cup marks

\* the Script-B rule on the single-spaced token t and its words, the characters of
\* marks being allowed in a word after its first letter
ScriptBRule(t, words, marks) ==
    /\ Len(words) \in 2..3
    /\ \A i \in 1..Len(words) : WordIsSpelled(words[i], marks) /\ WordIsCased(words[i])
    /\ \E i \in 1..Len(words) : Len(words[i]) > 1
    /\ \A i \in 1..Len(t) : t[i] \notin 48..57
    /\ Lower(t) \notin EN_STOPWORDS
    /\ \A i \in 1..Len(words) : Lower(words[i]) \notin EN_STOPWORDS

\* the tokens the heuristic has to accept, marks being allowed inside a word
MeetsNameRules(token, marks) ==
    \/ ScriptARule(Strip(token))
    \/ ScriptBRule(CollapseSpaces(Strip(token)), Split(CollapseSpaces(Strip(token)), 32), marks)

\* the two tokens stated as accepted are returned and the three stated as
\* rejected are not, whenever they are candidates
ExamplesAsStated ==
    /\ \A name \in { <<24352, 19977>>, <<76, 105, 32, 77, 105, 110, 103>> } :
          name \in Range(f_candidates) => name \in Range(f_names)
    /\ \A token \in { <<25945, 24072, 38431, 20237>>,
                      <<116, 104, 101, 32, 103, 114, 111, 117, 112>>,
                      <<65, 49, 32, 66, 50>> } : token \notin Range(f_names)

\* C27 as stated: the heuristic accepts a token if and only if it meets the
\* Script-A rule or the Script-B rule with words made of letters only.
C27_AcceptsIffLetterOnlyRules ==
    (cmd = "names" /\ f_pc = "returned" /\ ~f_enabled)
        => /\ \A i \in 1..Len(f_candidates) :
                 f_candidates[i] \in Range(f_names) <=> MeetsNameRules(f_candidates[i], {})
           /\ ExamplesAsStated

\* C27 amended: the heuristic accepts a token if and only if it meets the
\* Script-A rule or the Script-B rule in which a word starts with a letter and
\* goes on with letters, hyphens, apostrophes and periods; the five tokens of the
\* statement are accepted and rejected as it says.
C27_AcceptsIffRulesWithMarks ==
    (cmd = "names" /\ f_pc = "returned" /\ ~f_enabled)
        => /\ \A i \in 1..Len(f_candidates) :
                 f_candidates[i] \in Range(f_names)
                     <=> MeetsNameRules(f_candidates[i], {45, 39, 46})
           /\ ExamplesAsStated

\* the heuristic was applied to "J. Smith" and to "A1 B2": it accepted the first,
\* whose first word holds a period, and rejected the second
C27_InitialWithPeriodAccepted ==
    /\ cmd = "names" /\ f_pc = "returned" /\ ~f_enabled
    /\ f_candidates = << <<74, 46, 32, 83, 109, 105, 116, 104>>, <<65, 49, 32, 66, 50>> >>
    /\ f_names = << <<74, 46, 32, 83, 109, 105, 116, 104>> >>

\* the keys of the rows of a store
ExportKeys(rows) == {export_row_key(rows[i]) : i \in 1..Len(rows)}

\* the capture date a record carries, "" when it carries none
CaptureDateOf(record) ==
    IF "crawl_date" \in DOMAIN record THEN record.crawl_date ELSE ""

\* row is the projection of record on the schema, today's date standing for a
\* capture date the record does not carry
IsProjectionOf(row, record) ==
    /\ DOMAIN row = headers
    /\ \A f \in headers \ {"crawl_date"} :
          row[f] = IF f \in DOMAIN record THEN record[f] ELSE ""
    /\ row.crawl_date = IF CaptureDateOf(record) = "" THEN Today ELSE CaptureDateOf(record)

\* the last record of the normalized store with the key
LastRecordWith(key) ==
    normalizedStore[CHOOSE i \in 1..Len(normalizedStore) :
                        /\ export_row_key(normalizedStore[i]) = key
                        /\ \A j \in (i + 1)..Len(normalizedStore) :
                               export_row_key(normalizedStore[j]) # key]

C29_StagesWriteOwnStores ==
    [][/\ cmd = "phase2" => UNCHANGED <<discoverStores, namesStore, normStores>>
       /\ cmd = "phase3" => UNCHANGED <<discoverStores, namesStore, enrichedStore, exportStore>>
       /\ cmd = "export" => UNCHANGED <<discoverStores, namesStore, enrichedStore,
                                        normalizedStore, reviewStore>>
       /\ cmd = "phase1" => UNCHANGED <<enrichedStore, normStores>>]_vars

\* an export has written its rows from a normalized store: the store it read is
\* there as it was, the stores of the other phases are empty as before
C29_ExportedFromNormalized ==
    /\ cmd = "export" /\ n_runs = 1
    /\ exportStore # <<>> /\ normalizedStore # <<>>
    /\ Len(exportStore) = Len(normalizedStore)
    /\ namesStore = <<>> /\ enrichedStore = <<>> /\ reviewStore = <<>>

\* C30: with the capability enabled, every name the classification returns for a
\* group is one of the candidates it was handed, and so is the name of every row
\* built: a name the capability returns that was not submitted is not accepted.
C30_AcceptedWereSubmitted ==
    (cmd = "names" /\ f_pc = "returned" /\ f_enabled)
        => /\ Range(f_names) \subseteq Range(f_candidates)
           /\ \A i \in 1..Len(f_rows) :
                 {f_rows[i].name_zh, f_rows[i].name_en} \ {<<>>} \subseteq Range(f_candidates)

\* every record of the enriched store has a record of its key in the normalized
\* store
AllEnrichedNormalized ==
    \A i \in 1..Len(enrichedStore) :
        \E j \in 1..Len(normalizedStore) :
            _row_key(normalizedStore[j]) = _row_key(enrichedStore[i])

\* C31: normalization run repeatedly in resume mode with a record limit of 1 or
\* more eventually has every enriched record in the normalized store.
C31_ResumedRunsNormalizeAll == <>AllEnrichedNormalized

\* after agrees with before on every field other than the notes
SameButNotes(before, after) ==
    /\ DOMAIN after = DOMAIN before
    /\ \A f \in DOMAIN before \ {"notes"} : after[f] = before[f]

\* the notes of after are the notes of before followed by text
NoteAppended(before, after, text) == after.notes = Append(before.notes, text)

\* the record before the profile call, before the search call and at return, for
\* one enrichment of row that returned: each failed call left the fields alone and
\* added its error text
FailedCallsKeepFields(base, profiled, made1, made2, r1, r2, out) ==
    /\ ~out.raised
    /\ made1 /\ ~r1.ok =>
          /\ SameButNotes(base, profiled)
          /\ NoteAppended(base, profiled, "profile_extract_error")
    /\ made2 /\ ~r2.ok =>
          /\ SameButNotes(profiled, out.rec)
          /\ NoteAppended(profiled, out.rec, "deepseek_error")

FailedCallsKept(base, profiled, has_text, fallback, r1, r2, fetch) ==
    FailedCallsKeepFields(base, profiled, has_text,
                          fallback /\ _needs_search_fallback(profiled), r1, r2,
                          EnrichFrom(base, TRUE, fallback, fetch, r1, r2))

FailedCallsKeptFor(base, fallback, fetch, r1, r2) ==
    FailedCallsKept(base, ProfileStep(base, base.profile_url # <<>> /\ fetch = "text", r1),
                    base.profile_url # <<>> /\ fetch = "text", fallback, r1, r2, fetch)

\* C32: for the item the run enriched last, whatever the page fetch and the two
\* capability calls answer, a capability call that ends in an error does not end
\* the enrichment of the item: the record is returned, every field other than the
\* notes has the value it had before that call, and the notes are the notes
\* before the call followed by the error text.
C32_FailedCallKeepsFields ==
    e_pc = "run" /\ apiKey /\ e_new # <<>> =>
        \A fetch \in FetchOutcomes \ {"raise"}, r1 \in Responses, r2 \in Responses :
            FailedCallsKeptFor(_default_enriched(e_src[Len(e_src)].row), e_fallback,
                               fetch, r1, r2)

\* C32 witness: a record of the run whose profile call filled the bachelor
\* institution and left a note, and whose search call failed: the institution is
\* kept and the error text follows the note
C32_SearchFailedAfterProfile ==
    /\ e_pc = "run"
    /\ \E i \in 1..Len(e_new) :
          /\ e_new[i].bs_school # <<>>
          /\ e_new[i].notes = <<"partial", "deepseek_error">>
          /\ e_new[i].status = "incomplete"

\* what a payload offers for a field: its text without the blanks around it, and
\* for the year the 4-digit year found in that text
OfferedBy(payload, f) ==
    IF f = "join_pku_year" THEN _normalize_year(payload[f]) ELSE Stripped(payload, f)

\* after keeps every non-empty field of before, and a field empty before and set
\* after holds what the payload offers; the fields no payload carries are
\* unchanged (the status is computed, not applied)
FilledOnlyWhereEmpty(before, after, payload) ==
    \A f \in DOMAIN before \ {"status"} :
        IF f \in PayloadKeys
        THEN /\ before[f] # EmptyOf(f) => after[f] = before[f]
             /\ before[f] = EmptyOf(f) /\ after[f] # EmptyOf(f) =>
                   /\ payload[f] # EmptyOf(f)
                   /\ after[f] = OfferedBy(payload, f)
        ELSE after[f] = before[f]

SearchFillsOnlyEmpty(profiled, fallback, r2, out) ==
    fallback /\ _needs_search_fallback(profiled) /\ r2.ok /\ ~out.raised =>
        FilledOnlyWhereEmpty(profiled, out.rec, r2.payload)

SearchFillsOnlyEmptyFor(base, fallback, fetch, r1, r2) ==
    SearchFillsOnlyEmpty(ProfileStep(base, base.profile_url # <<>> /\ fetch = "text", r1),
                         fallback, r2, EnrichFrom(base, TRUE, fallback, fetch, r1, r2))

\* C33: for the item the run enriched last, whatever the page fetch and the two
\* capability calls answer, the record returned after the search response was
\* applied keeps every field that was non-empty before it, and a field that was
\* empty and is now set holds the non-empty value the response gives for it.
C33_SearchNeverOverwrites ==
    e_pc = "run" /\ apiKey /\ e_new # <<>> =>
        \A fetch \in FetchOutcomes \ {"raise"}, r1 \in Responses, r2 \in Responses :
            SearchFillsOnlyEmptyFor(_default_enriched(e_src[Len(e_src)].row), e_fallback,
                                    fetch, r1, r2)

\* C33 witness: a record of the run whose bachelor institution came from the
\* profile answer (a name holding an alias of CAS) and whose doctoral institution
\* came from a search answer that offered another bachelor institution
C33_SearchFilledAroundProfile ==
    /\ e_pc = "run"
    /\ \E i \in 1..Len(e_new) :
          /\ e_new[i].bs_school = <<20013, 31185, 38498, 29289, 29702, 30740, 31350, 25152>>
          /\ e_new[i].phd_school = <<77, 73, 84>>
          /\ e_new[i].join_pku_year = <<50, 48, 48, 53>>
          /\ e_new[i].notes = <<"partial">>

\* the capability calls among the calls counted for one enrichment of row that
\* returned: the count less the fetch of the profile page
CapabilityCallsOf(row, calls) == calls - IF row.profile_url # <<>> THEN 1 ELSE 0

\* the calls after the profile step, given the record that step left: none when
\* the three fields are there; one search call when one is missing and the
\* fallback is enabled; none and the note when one is missing and it is disabled
CallsFollowProfile(base, profiled, profile_calls, fallback, out) ==
    /\ ~out.raised
    /\ AllThreePresent(profiled) =>
          /\ CapabilityCallsOf(base, out.calls) = profile_calls
          /\ out.rec.notes = profiled.notes
    /\ ~AllThreePresent(profiled) /\ fallback =>
          CapabilityCallsOf(base, out.calls) = profile_calls + 1
    /\ ~AllThreePresent(profiled) /\ ~fallback =>
          /\ CapabilityCallsOf(base, out.calls) = profile_calls
          /\ out.rec.notes = Append(profiled.notes, "web_search_disabled")
    /\ CapabilityCallsOf(base, out.calls) <= 2

CallsFollowProfileFor(base, fallback, fetch, r1, r2) ==
    CallsFollowProfile(base,
                       ProfileStep(base, base.profile_url # <<>> /\ fetch = "text", r1),
                       IF base.profile_url # <<>> /\ fetch = "text" THEN 1 ELSE 0,
                       fallback, EnrichFrom(base, TRUE, fallback, fetch, r1, r2))

\* C34: for the item the run enriched last, whatever the page fetch and the
\* capability answer: with the three fields non-empty after the profile step no
\* further call is made; with one empty and the fallback enabled exactly one
\* search call is made; with one empty and the fallback disabled no call is made
\* and the note is recorded.  No item of the run had more than two capability
\* calls.
C34_CallsAfterProfileStep ==
    /\ e_pc = "run" /\ apiKey /\ e_new # <<>> =>
          \A fetch \in FetchOutcomes \ {"raise"}, r1 \in Responses, r2 \in Responses :
              CallsFollowProfileFor(_default_enriched(e_src[Len(e_src)].row), e_fallback,
                                    fetch, r1, r2)
    /\ \A i \in 1..Len(e_src) :
          ~e_src[i].raised =>
              IF apiKey THEN CapabilityCallsOf(e_src[i].row, e_src[i].calls) \in 0..2
              ELSE e_src[i].calls = 0

\* C34 witness: the run holds an item with two capability calls (profile and
\* search), or, the fallback disabled, an item with the profile call alone and the
\* note after the profile answer's own note
C34_TwoCallsOrNoteRecorded ==
    /\ e_pc = "run" /\ apiKey
    /\ \E i \in 1..Len(e_src) :
          /\ ~e_src[i].raised
          /\ e_src[i].row.profile_url # <<>>
          /\ IF e_fallback
             THEN e_src[i].calls = 3 /\ e_new[i].status = "complete"
             ELSE /\ e_src[i].calls = 2
                  /\ e_new[i].notes = <<"partial", "web_search_disabled">>

\* the first balanced substring of text for one pair of marks: from the first
\* opening mark to the first place after it where as many marks have closed as
\* have opened; <<>> if there is none
Depth(text, from, to, open, close) ==
    Cardinality({i \in from..to : text[i] = open})
        - Cardinality({i \in from..to : text[i] = close})

BalancedFrom(text, first, open, close) ==
    IF \E j \in first..Len(text) : Depth(text, first, j, open, close) = 0
    THEN SubSeq(text, first,
                Min({j \in first..Len(text) : Depth(text, first, j, open, close) = 0}))
    ELSE <<>>

FirstBalanced(text, open, close) ==
    IF \E i \in 1..Len(text) : text[i] = open
    THEN BalancedFrom(text, Min({i \in 1..Len(text) : text[i] = open}), open, close)
    ELSE <<>>

\* C35: when the first balanced {...} substring of the text is a JSON object,
\* parse_json_obj returns that object, and when the first balanced [...]
\* substring is a JSON list, parse_json_list returns the items of that list,
\* whatever prose stands before and after it.
C35_FirstBalancedIsParsed ==
    /\ p_pc = "returned" /\ p_fn = "obj" /\ IsJsonObj(FirstBalanced(p_text, "{", "}"))
          => p_out = FirstBalanced(p_text, "{", "}")
    /\ p_pc = "returned" /\ p_fn = "list" /\ IsJsonList(FirstBalanced(p_text, "[", "]"))
          => p_out = ItemStrings(FirstBalanced(p_text, "[", "]"))

\* rec is what a failed or skipped enrichment of row leaves: the default record
\* of row, nothing filled in, with whatever notes
IsBareOf(row, rec) == SameButNotes(_default_enriched(row), rec)

\* the enriched store holds such a record of row
BareInStore(row) == \E j \in 1..Len(enrichedStore) : IsBareOf(row, enrichedStore[j])

\* a run that reaches its write stores every bare record it computed, incomplete
BarePersisted ==
    e_pc = "run" /\ e_pc' = "idle" =>
        \A i \in 1..Len(e_new) :
            IsBareOf(e_src[i].row, e_new[i]) =>
                \E j \in 1..Len(enrichedStore') :
                    enrichedStore'[j] = e_new[i] /\ enrichedStore'[j].status = "incomplete"

\* a run started with resume does not take up a name whose bare record is stored
BareNotTakenUp ==
    e_pc # "run" /\ e_pc' = "run" /\ e_resume' =>
        \A k \in 1..Len(namesStore) :
            BareInStore(namesStore[k]) =>
                \A i \in 1..Len(e_pending') : e_pending'[i] # namesStore[k]

\* the write of a run started with resume leaves the stored bare records as they are
BareStays ==
    e_pc = "run" /\ e_pc' = "idle" /\ e_resume =>
        \A k \in 1..Len(namesStore), j \in 1..Len(enrichedStore) :
            IsBareOf(namesStore[k], enrichedStore[j]) =>
                \E m \in 1..Len(enrichedStore') : enrichedStore'[m] = enrichedStore[j]

\* C36: an item whose enrichment failed or was skipped is written to the enriched
\* store as an incomplete record by the run that reaches its write; no run
\* started with resume takes the item up again, and the write of such a run leaves
\* its record as it is.
C36_FailedItemStaysIncomplete == [][BarePersisted /\ BareNotTakenUp /\ BareStays]_vars

\* C36 witness: a second, resumed run is at work on another name while the store
\* holds the record of a name whose capability call failed in the first run
C36_ResumedPastFailedItem ==
    /\ e_pc = "run" /\ e_resume /\ e_runs = 2 /\ e_pending # <<>>
    /\ \E k \in 1..Len(namesStore), j \in 1..Len(enrichedStore) :
          /\ IsBareOf(namesStore[k], enrichedStore[j])
          /\ enrichedStore[j].notes = <<"deepseek_error">>
          /\ \A i \in 1..Len(e_pending) : e_pending[i] # namesStore[k]

\* C37: every row of the names store that discovery wrote has an empty profile
\* link, and the enrichment of a name row with an empty profile link fetches no
\* page and makes no profile call: it returns, with the search call at most, and
\* no profile error is noted.
C37_DiscoveredRowsHaveNoLink ==
    /\ cmd = "phase1" => \A i \in 1..Len(namesStore) : namesStore[i].profile_url = <<>>
    /\ cmd = "phase2" =>
          \A i \in 1..Len(e_src) :
              e_src[i].row.profile_url = <<>> =>
                  /\ ~e_src[i].raised
                  /\ e_src[i].calls \in 0..1
                  /\ \A n \in 1..Len(e_new[i].notes) :
                        e_new[i].notes[n] # "profile_extract_error"

\* C37 witness: discovery wrote a name row for a candidate that the candidate
\* store holds with a non-empty link
C37_LinkedCandidateRowWithoutLink ==
    /\ cmd = "phase1"
    /\ \E i \in 1..Len(namesStore), j \in 1..Len(candidateStore) :
          /\ candidateStore[j].name_candidate \in {namesStore[i].name_zh, namesStore[i].name_en}
          /\ candidateStore[j].profile_url # <<>>
          /\ namesStore[i].profile_url = <<>>

\* normalized is row with nothing but the three institution fields changed, each
\* of them empty exactly when it was empty in row, and a status that is right for
\* the normalized record
OnlyInstitutionsChanged(row, normalized) ==
    /\ DOMAIN normalized = DOMAIN row
    /\ \A f \in DOMAIN row \ Range(SchoolFields) : normalized[f] = row[f]
    /\ _row_key(normalized) = _row_key(row)
    /\ \A f \in Range(SchoolFields) : normalized[f] = <<>> <=> row[f] = <<>>
    /\ normalized.status = IF AllThreePresent(normalized) THEN "complete" ELSE "incomplete"

\* C38: every record the run has normalized differs from the enriched record it
\* was made of in its three institution fields only; each of these is empty after
\* normalization exactly when it was empty before, and the status the record
\* carries is the one its fields call for.
C38_OnlyInstitutionFieldsChange ==
    n_pc = "run" =>
        \A i \in 1..Len(n_new) : OnlyInstitutionsChanged(n_pending[i], n_new[i])

\* C38 witness: the run normalized a complete record, replacing its bachelor
\* institution by a code and leaving its empty master institution empty
C38_CodeReplacedNameOfCompleteRecord ==
    /\ n_pc = "run"
    /\ \E i \in 1..Len(n_new) :
          /\ n_new[i].bs_school # n_pending[i].bs_school
          /\ n_new[i].ms_school = <<>>
          /\ n_new[i].status = "complete"

\* the rows of one seed among rows, in order
RowsOfSeed(rows, k) == SelectSeq(rows, LAMBDA row : row.seed_row_index = k)

\* the page ordinals of rows are 1, 2, ... in order
OrdinalsFromOne(rows) == \A i \in 1..Len(rows) : rows[i].page_index = i

\* the rows the run has added, seed by seed, and the rows of the crawl in
\* progress are numbered from 1 with no gap and no repeat
SeedRowsNumbered ==
    cmd = "phase1" =>
        /\ \A i \in 1..Len(d_new) : OrdinalsFromOne(RowsOfSeed(d_new, d_new[i].seed_row_index))
        /\ OrdinalsFromOne(c_rows)
        /\ \A i \in 1..Len(c_rows) : c_rows[i].seed_row_index = c_seed.seed_row_index

\* the rows a run adds for a seed are the rows of the one crawl that returned
RowsAddedFromOneCrawl ==
    d_new' # d_new /\ d_new' # <<>> =>
        /\ c_pc = "returned"
        /\ d_new' = d_new \o c_rows
        /\ \A i \in 1..Len(d_new) : d_new[i].seed_row_index # c_seed.seed_row_index

\* C39: for every seed crawled in a run, the listing rows the run adds for the
\* seed are the rows of a single crawl, the one that returned, and their page
\* ordinals are 1..n in capture order with no gap and no repeat, also when the
\* browser crawl raised after recording pages and the requests crawl took over.
C39_SeedRowsFromOneStrategy == []SeedRowsNumbered /\ [][RowsAddedFromOneCrawl]_vars

\* C39 witness: the run added two rows, numbered 1 and 2, for a seed whose browser
\* crawl had raised after recording a page
C39_TwoRowsAfterBrowserFailed ==
    /\ cmd = "phase1" /\ playwright
    /\ \E k \in d_dropped :
          /\ Len(RowsOfSeed(d_new, k)) = 2
          /\ OrdinalsFromOne(RowsOfSeed(d_new, k))

\* the occurrences of candidate texts on a page, in the order the extractor
\* takes them up: the anchors, then the text tokens; each with its link
Occurrences(html, page_url) ==
    SelectSeq(AnchorPairs(SelectSeq(html, LAMBDA el : el.href # <<>>), page_url)
                  \o TextPairs(html),
              LAMBDA pair : _looks_like_name(pair.name))

\* pair has a link exactly when an occurrence of its text has one, and then the
\* link of the first such occurrence
LinkOfFirstLinked(occ, pair, linked) ==
    /\ pair.profile_url # <<>> <=> linked # {}
    /\ linked # {} => pair.profile_url = occ[Min(linked)].profile_url

\* pairs holds one pair per distinct text of occ, each with the link due to it
OnePairPerText(occ, pairs) ==
    /\ \A i, j \in 1..Len(pairs) : pairs[i].name = pairs[j].name => i = j
    /\ {pairs[i].name : i \in 1..Len(pairs)} = {occ[k].name : k \in 1..Len(occ)}
    /\ \A i \in 1..Len(pairs) :
          LinkOfFirstLinked(occ, pairs[i],
                            {k \in 1..Len(occ) : occ[k].name = pairs[i].name
                                                 /\ occ[k].profile_url # <<>>})

\* C40: when the run has written its candidates, for every page listed the
\* candidate extractor returns exactly one pair per distinct candidate text of
\* the page; the pair's link is non-empty exactly when some occurrence of the
\* text carries a non-empty link, and it is then the link of the first such
\* occurrence.
C40_OnePairPerCandidateText ==
    cmd = "phase1" /\ d_pc = "persisted" =>
        \A i \in 1..Len(listingStore) :
            listingStore[i].html_path \in DOMAIN pagesDir =>
                OnePairPerText(Occurrences(pagesDir[listingStore[i].html_path],
                                           listingStore[i].listing_page_url),
                               _collect_candidate_pairs(pagesDir[listingStore[i].html_path],
                                                        listingStore[i].listing_page_url))

\* C40 witness: a listed page holds the same text in two anchors with different
\* links, and the candidate store has the text once for that page, with the link
\* of the first anchor
C40_FirstOfTwoLinksKept ==
    /\ cmd = "phase1"
    /\ \E i \in 1..Len(listingStore), j \in 1..Len(candidateStore) :
          /\ listingStore[i].html_path \in DOMAIN pagesDir
          /\ pagesDir[listingStore[i].html_path] = PageNamesNext
          /\ candidateStore[j].html_path = listingStore[i].html_path
          /\ candidateStore[j].name_candidate = ElZhang.text
          /\ candidateStore[j].profile_url
                = Urljoin(listingStore[i].listing_page_url, ElZhang.href)
          /\ \A k \in 1..Len(candidateStore) :
                candidateStore[k].html_path = listingStore[i].html_path
                /\ candidateStore[k].name_candidate = ElZhang.text => k = j

====
